---- MODULE Spec2Model ----
(***************************************************************************)
(* Frame lifecycle of the DX12 graphics backend                            *)
(* (engine/graphics/src/dx12/graphics_dx12.cpp): frame slots with their    *)
(* fences, deferred destruction lists and scratch buffers, the single      *)
(* command list, and the GPU queue that executes submitted work            *)
(* asynchronously.                                                         *)
(***************************************************************************)
EXTENDS Integers, Sequences, FiniteSets, TLC

\* ---------------------------------------------------------------- constants
\* Values of graphics_dx12_private.h (not part of the sources at hand).
MAX_FRAMEBUFFERS == 2
RENDER_CONTEXT_STATE_FREE == 0
BLOCK_STEP_SIZE == 256
MAX_BLOCK_SIZE == 512
\* CreateFence(0, ...): the value every frame fence starts with.
FENCE_INITIAL_VALUE == 0

\* ------------------------------------------------------------------- bounds
MaxFrames == 3     \* frames DX12BeginFrame starts
MaxQueue == 3      \* entries the GPU queue holds before the CPU stops submitting
MaxHandles == 1    \* ID3D12Resource objects CreateDeviceBuffer may create
MaxDraws == 2      \* draws the application issues
MaxAllocs == 2     \* descriptors a pool hands out between two resets
MaxOverrun == 1    \* allocations followed past the end of a pool
MaxCount == 2      \* values one call on a constant is given
MaxIndex == 1      \* value_index SetNamedConstantAtIndex is given
MaxValues == 3     \* values a named constant buffer holds
MaxBarriers == 6   \* transitions recorded for one back buffer
MaxSamplers == 3   \* samplers in context->m_TextureSamplers
MaxHistory == 4    \* entries the undo and redo stacks of a graph hold together

Slots == 0 .. (MAX_FRAMEBUFFERS - 1)
Pools == 0 .. ((MAX_BLOCK_SIZE \div BLOCK_STEP_SIZE) - 1)
Handles == 1 .. MaxHandles
\* The buffer object of the application whose resource is followed.
Buffers == {"vertex_buffer"}
NullHandle == 0
\* A value below every value a fence takes: no Signal, no write yet.
NoFence == FENCE_INITIAL_VALUE - 1
\* The regions of the scratch memory the bounded draws can reach.
ScratchRegions ==
    {<< s, p, k * ((p + 1) * BLOCK_STEP_SIZE) >> :
        s \in Slots, p \in Pools, k \in 0 .. (MaxDraws - 1)}
\* Uniform block sizes the draws use (all below MAX_BLOCK_SIZE).
DrawSizes == {BLOCK_STEP_SIZE - 1, MAX_BLOCK_SIZE - 1}
\* Sizes a direct call of AllocateConstantBuffer is given: the ends of every
\* size class, and the first sizes the assert rejects.
AllocSizes ==
    {0, BLOCK_STEP_SIZE - 1, BLOCK_STEP_SIZE, BLOCK_STEP_SIZE + 1,
     MAX_BLOCK_SIZE - 1, MAX_BLOCK_SIZE, MAX_BLOCK_SIZE + 1}
\* Root parameter slots a view is bound to.
RootSlots == {0, 1}

VARIABLES
    live,                  \* g_DX12Context # 0
    pc,                    \* position of the CPU thread inside DX12BeginFrame
    m_CurrentFrameIndex,
    backBufferIndex,       \* m_SwapChain->GetCurrentBackBufferIndex()
    m_FrameBegun,
    m_FenceValue,          \* m_FrameResources[s].m_FenceValue
    fenceCompleted,        \* m_FrameResources[s].m_Fence->GetCompletedValue()
    m_ResourcesToDestroy,  \* m_FrameResources[s].m_ResourcesToDestroy
    m_MemoryPools,         \* m_FrameResources[s].m_ScratchBuffer.m_MemoryPools
    buffers,               \* DX12DeviceBuffer of each vertex/index buffer
    nextHandle,            \* next ID3D12Resource CreateDeviceBuffer returns
    releaseCount,          \* number of Release() calls each resource received
    cmdList,               \* context->m_CommandList
    gpuQueue,              \* context->m_CommandQueue, oldest entry first
    deviceLost,            \* the GPU stopped executing (device removed)
    lastSignaled,          \* history: value of the latest Signal Flip queued per slot
    scratchWrites,         \* history: <<slot, pool, offset>> -> fence value of the frame that last wrote it
    drawCount,             \* history: draws issued so far
    aborted,               \* an assert of the backend failed: the process is gone
    lastAlloc,             \* history: the latest call on a scratch buffer and what it returned
    m_PipelineState,       \* context->m_PipelineState
    m_CurrentProgram,      \* context->m_CurrentProgram
    m_CurrentVertexDeclaration, \* context->m_CurrentVertexDeclaration[0]
    m_PipelineCache,       \* context->m_PipelineCache
    synthesized,           \* history: CreatePipeline calls made for each hash
    lastPipeline,          \* history: the latest GetOrCreatePipeline call and what it returned
    shaderProgram,         \* the DX12ShaderProgram DX12NewProgram made last, the current program
    builtProgram,          \* history: that program as DX12NewProgram returned it
    m_UniformData,         \* program->m_UniformData, by data offset
    lastCommit,            \* history: the latest CommitUniforms call and what it bound
    lastLookup,            \* history: the latest DX12GetUniformLocation call and what it returned
    lastName,              \* history: the latest DX12GetUniformName call and what it returned
    m_VerifyGraphicsCalls, \* context->m_VerifyGraphicsCalls
    m_TextureSamplers,     \* context->m_TextureSamplers
    texture,               \* the DX12Texture DX12NewTexture made last
    lastSetTexture,        \* history: the latest DX12SetTexture call and what it logged
    contextCount,          \* DX12Context objects constructed and not deleted
    lastNewContext,        \* history: the latest DX12NewContext call and what it returned
    undo_stack,            \* (is/undo-stack (is/graph-history sys graph-id)), oldest entry first
    redo_stack,            \* (is/redo-stack (is/graph-history sys graph-id))
    returnedOffsets,       \* history: per pool, the offsets AllocateConstantBuffer returned since the last Reset
    namedBuffer,           \* a NamedConstantBuffer: m_Constants by name hash, and m_Values
    lastNamedCall,         \* history: the latest call on the named constant buffer, its result, and the counts before it
    constant,              \* a Constant: the storage m_Values points to and m_NumValues
    lastSetValues,         \* history: the latest SetConstantValues call, its result and the Constant before it
    mainTarget,            \* the DX12RenderTarget behind context->m_MainRenderTarget
    barriers,              \* history: per back buffer, the transitions recorded on the command list, oldest first
    lastPass               \* history: the latest BeginRenderPass or EndRenderPass call and what it did

scratchAux == << aborted, lastAlloc >>
pipelineVars == << m_PipelineState, m_CurrentProgram, m_CurrentVertexDeclaration,
                   m_PipelineCache, synthesized, lastPipeline >>

bindingVars == << shaderProgram, builtProgram, m_UniformData, lastCommit >>

lookupVars == << lastLookup, lastName >>
textureVars == << m_VerifyGraphicsCalls, m_TextureSamplers, texture, lastSetTexture >>
contextVars == << contextCount, lastNewContext >>
historyVars == << undo_stack, redo_stack >>
constantVars == << namedBuffer, lastNamedCall, constant, lastSetValues >>
renderPassVars == << mainTarget, barriers, lastPass >>
laterVars == << textureVars, contextVars, historyVars, constantVars, renderPassVars,
               returnedOffsets >>
extraVars == << lookupVars, laterVars >>

\* The state the frame lifecycle leaves alone.
auxVars == << scratchAux, pipelineVars, bindingVars, extraVars >>

vars == << live, pc, m_CurrentFrameIndex, backBufferIndex, m_FrameBegun,
           m_FenceValue, fenceCompleted, m_ResourcesToDestroy, m_MemoryPools,
           buffers, nextHandle, releaseCount, cmdList, gpuQueue, deviceLost,
           lastSignaled, scratchWrites, drawCount, auxVars >>

\* ------------------------------------------------------------ scratch buffer
\* DX12ScratchBuffer::Initialize: m_BlockSize of pool i.
BlockSize(i) == (i + 1) * BLOCK_STEP_SIZE

\* DX12ScratchBuffer::Initialize: the pools of one freshly initialised slot.
ScratchInitialize ==
    [i \in Pools |-> [m_MemoryCursor |-> 0, m_DescriptorCursor |-> 0]]

ScratchReset_KeepCursors(pools) == pools

ScratchReset_MemoryOnly(pools) ==
    [i \in DOMAIN pools |-> [pools[i] EXCEPT !.m_MemoryCursor = 0]]

\* DX12ScratchBuffer::Reset
ScratchReset(pools) ==
    [i \in DOMAIN pools |-> [m_MemoryCursor |-> 0, m_DescriptorCursor |-> 0]]

\* AllocateConstantBuffer that advances the cursor by the size asked for.
AllocateConstantBuffer_AdvanceBySize(pools, non_aligned_byte_size) ==
    LET pool_index == non_aligned_byte_size \div BLOCK_STEP_SIZE
        memory_cursor == pools[pool_index].m_MemoryCursor
    IN  [pool_index |-> pool_index,
         cpu_offset |-> memory_cursor,
         gpu_pool   |-> 0,
         gpu_offset |-> memory_cursor,
         pools      |-> [pools EXCEPT
                           ![pool_index].m_MemoryCursor = @ + non_aligned_byte_size,
                           ![pool_index].m_DescriptorCursor = @ + 1]]

\* DX12ScratchBuffer::AllocateConstantBuffer: the selected pool, the offset of
\* the returned CPU pointer in that pool, the pool and offset of the GPU view
\* bound to the root slot, and the pools afterwards.
AllocateConstantBuffer(pools, non_aligned_byte_size) ==
    LET pool_index == non_aligned_byte_size \div BLOCK_STEP_SIZE
        memory_cursor == pools[pool_index].m_MemoryCursor
    IN  [pool_index |-> pool_index,
         cpu_offset |-> memory_cursor,
         gpu_pool   |-> 0,
         gpu_offset |-> memory_cursor,
         pools      |-> [pools EXCEPT
                           ![pool_index].m_MemoryCursor = @ + BlockSize(pool_index),
                           ![pool_index].m_DescriptorCursor = @ + 1]]

\* DX12ScratchBuffer::AllocateTexture2D: the descriptor slot written and the
\* pools afterwards.
AllocateTexture2D(pools) ==
    [descriptor |-> pools[0].m_DescriptorCursor,
     pools      |-> [pools EXCEPT ![0].m_DescriptorCursor = @ + 1]]

\* assert(non_aligned_byte_size < MAX_BLOCK_SIZE), the first statement of
\* AllocateConstantBuffer.
AssertSize_OffByOne(non_aligned_byte_size) ==
    non_aligned_byte_size + 1 < MAX_BLOCK_SIZE

AssertSize(non_aligned_byte_size) == non_aligned_byte_size < MAX_BLOCK_SIZE

\* No call on a scratch buffer yet.
NoAlloc == [call |-> "none"]

\* A call on the scratch buffer that returns no constant buffer.
OtherCall(call, size, buffer_index, before) ==
    [call |-> call, size |-> size, buffer_index |-> buffer_index,
     pool_index |-> 0, cpu_offset |-> 0, gpu_pool |-> 0, gpu_offset |-> 0,
     bound |-> FALSE, before |-> before]

\* ------------------------------------------------------------ pipeline cache
\* Programs DX12NewProgram has created, vertex declarations the application
\* made, face types DX12SetCullFace is given.
Programs == {"sprite", "tile", "gui"}
VertexDeclarations == {"position_texcoord"}
FaceTypes == {"FACE_TYPE_BACK", "FACE_TYPE_FRONT"}
NoProgram == "null"
NoDeclaration == "null"
\* The only render target there is: rt->m_Id = DM_RENDERTARGET_BACKBUFFER_ID.
MainRenderTarget == "DM_RENDERTARGET_BACKBUFFER_ID"
\* SetCapacity(32, Capacity() + 4)
PIPELINE_CACHE_GROWTH == 4

\* CreateRootSignature: every program gets a root signature object of its own.
RootSignatureOf(program) == << "m_RootSignature", program >>

PipelineHash_WithDeclaration(state, rt_id, root_signature, declaration) ==
    << state, rt_id, root_signature, declaration >>

\* GetOrCreatePipeline: the hash of m_PipelineState, current_rt->m_Id and
\* m_CurrentProgram->m_RootSignature (taken as free of collisions); the vertex
\* declaration is not hashed.
PipelineHash(state, rt_id, root_signature, declaration) ==
    << state, rt_id, root_signature >>

PipelineHashes ==
    {PipelineHash([m_CullFaceType |-> f], MainRenderTarget, RootSignatureOf(p), d) :
        f \in FaceTypes, p \in Programs, d \in {NoDeclaration}}

\* CreatePipeline: the pipeline object, as what it was built from: the shader
\* stages and root signature of the current program, the format and sample
\* description of the render target and the input layout of the enabled
\* vertex declaration (the pipeline state is read but not used).
CreatePipeline(program, rt, declaration, hash, generation) ==
    [hash |-> hash, generation |-> generation,
     program |-> program, rt |-> rt, input_layout |-> declaration]

NoPipeline ==
    [hash |-> << >>, generation |-> 0,
     program |-> NoProgram, rt |-> MainRenderTarget, input_layout |-> NoDeclaration]

NoPipelineCall == [called |-> FALSE]

\* The CreatePipeline calls made for a hash, and the count after one more.
Made(made, hash) == IF hash \in DOMAIN made THEN made[hash] ELSE 0
CountCreate(made, hash) ==
    [h \in (DOMAIN made) \cup {hash} |->
        IF h = hash THEN Made(made, hash) + 1 ELSE made[h]]

\* dmHashTable (dlib): Get, Full, SetCapacity, Put.
HashTableGet(table, key) ==
    IF key \in DOMAIN table.entries THEN table.entries[key] ELSE NoPipeline
HashTableFull(table) == Cardinality(DOMAIN table.entries) = table.capacity
HashTableSetCapacity(table, capacity) == [table EXCEPT !.capacity = capacity]
HashTablePut(table, key, value) ==
    [table EXCEPT !.entries =
        [k \in (DOMAIN table.entries) \cup {key} |->
            IF k = key THEN value ELSE table.entries[k]]]

GetOrCreatePipeline_AlwaysCreate(cache, state, rt, program, declaration, made) ==
    LET pipeline_hash == PipelineHash(state, rt, RootSignatureOf(program), declaration)
        grown == IF HashTableFull(cache)
                 THEN HashTableSetCapacity(cache, cache.capacity + PIPELINE_CACHE_GROWTH)
                 ELSE cache
        built == CreatePipeline(program, rt, declaration, pipeline_hash,
                                Made(made, pipeline_hash) + 1)
    IN  [cache |-> HashTablePut(grown, pipeline_hash, built),
         pipeline |-> built, created |-> TRUE, hash |-> pipeline_hash]

GetOrCreatePipeline_DropOnGrow(cache, state, rt, program, declaration, made) ==
    LET pipeline_hash == PipelineHash(state, rt, RootSignatureOf(program), declaration)
        cached_pipeline == HashTableGet(cache, pipeline_hash)
    IN  IF cached_pipeline # NoPipeline
        THEN [cache |-> cache, pipeline |-> cached_pipeline, created |-> FALSE,
              hash |-> pipeline_hash]
        ELSE LET grown == IF HashTableFull(cache)
                          THEN [capacity |-> cache.capacity + PIPELINE_CACHE_GROWTH,
                                entries |-> << >>]
                          ELSE cache
                 built == CreatePipeline(program, rt, declaration, pipeline_hash,
                                         Made(made, pipeline_hash) + 1)
             IN  [cache |-> HashTablePut(grown, pipeline_hash, built),
                  pipeline |-> built, created |-> TRUE, hash |-> pipeline_hash]

\* GetOrCreatePipeline(context, current_rt): the cache afterwards, the pipeline
\* returned and whether CreatePipeline was called.
GetOrCreatePipeline(cache, state, rt, program, declaration, made) ==
    LET pipeline_hash == PipelineHash(state, rt, RootSignatureOf(program), declaration)
        cached_pipeline == HashTableGet(cache, pipeline_hash)
    IN  IF cached_pipeline # NoPipeline
        THEN [cache |-> cache, pipeline |-> cached_pipeline, created |-> FALSE,
              hash |-> pipeline_hash]
        ELSE LET grown == IF HashTableFull(cache)
                          THEN HashTableSetCapacity(
                                   cache, cache.capacity + PIPELINE_CACHE_GROWTH)
                          ELSE cache
                 built == CreatePipeline(program, rt, declaration, pipeline_hash,
                                         Made(made, pipeline_hash) + 1)
             IN  [cache |-> HashTablePut(grown, pipeline_hash, built),
                  pipeline |-> built, created |-> TRUE, hash |-> pipeline_hash]

\* ------------------------------------------------------ resource binding table
\* Shader resources as the shader meta data lists them.
Resource(name, set, binding, family, block_size) ==
    [m_Name |-> name, m_Set |-> set, m_Binding |-> binding,
     m_BindingFamily |-> family, m_BlockSize |-> block_size]

NullRes == Resource("null", 0, 0, "BINDING_FAMILY_GENERIC", 0)

ViewProj == Resource("view_proj", 0, 0, "BINDING_FAMILY_UNIFORM_BUFFER", 64)
Tint == Resource("tint", 0, 2, "BINDING_FAMILY_UNIFORM_BUFFER", 16)
DiffuseTexture == Resource("diffuse_texture", 0, 1, "BINDING_FAMILY_TEXTURE", 0)
NormalTexture == Resource("normal_texture", 0, 2, "BINDING_FAMILY_TEXTURE", 0)

\* stage_type_infos[res.m_Type.m_TypeIndex].m_Members: the members of a
\* uniform block; a texture has no type index.
MembersOf(res) ==
    CASE res.m_Name = "view_proj" -> << "view", "proj" >>
      [] res.m_Name = "tint" -> << "tint_color" >>
      [] OTHER -> << >>

\* res.m_Type.m_UseTypeIndex
UseTypeIndex(res) == res.m_BindingFamily = "BINDING_FAMILY_UNIFORM_BUFFER"

\* dmHashString64, taken as free of collisions.
NameHash(name) == << "dmHashString64", name >>

\* The names DX12GetUniformLocation is asked for and the indices
\* DX12GetUniformName is asked for.
UniformNames ==
    {"view_proj", "view", "proj", "tint", "tint_color", "diffuse_texture",
     "normal_texture", "no_such_uniform"}
UniformIndices == 0 .. 5

ShaderModule(uniform_buffers, textures) ==
    [m_UniformBuffers |-> uniform_buffers, m_StorageBuffers |-> << >>,
     m_Textures |-> textures]

\* The vertex and fragment programs the application has (no storage buffers:
\* DX12NewProgram asserts on them).
VertexModules ==
    {ShaderModule(<< ViewProj >>, << >>),
     ShaderModule(<< ViewProj >>, << DiffuseTexture >>)}
FragmentModules ==
    {ShaderModule(<< >>, << DiffuseTexture >>),
     ShaderModule(<< ViewProj >>, << DiffuseTexture >>),
     ShaderModule(<< Tint >>, << DiffuseTexture >>),
     ShaderModule(<< >>, << DiffuseTexture, NormalTexture >>)}
NullModule == ShaderModule(<< >>, << >>)

\* The part of m_ResourceBindings[MAX_SET_COUNT][MAX_BINDINGS_PER_SET_COUNT]
\* these modules reach.
TableSlots == {0} \X {0, 1, 2}
TextureUnits == {0, 1}

\* A ProgramResourceBinding of a new DX12ShaderProgram().
EmptyBinding ==
    [m_Res |-> NullRes, m_StageFlags |-> {}, m_TextureUnit |-> 0,
     m_StorageBufferUnit |-> 0, m_DataOffset |-> 0, m_DynamicOffsetIndex |-> 0]

\* ProgramResourceBindingsInfo binding_info = {}
EmptyBindingsInfo ==
    [m_UniformBufferCount |-> 0, m_StorageBufferCount |-> 0, m_TextureCount |-> 0,
     m_UniformDataSize |-> 0, m_TotalUniformCount |-> 0,
     m_MaxSet |-> 0, m_MaxBinding |-> 0]

Max(a, b) == IF a >= b THEN a ELSE b

\* FillOne that counts a uniform block as one uniform.
FillOne_CountBlocks(st, res, stage_flag) ==
    LET slot == << res.m_Set, res.m_Binding >>
        old == st.table[slot]
        info == st.info
    IN  IF slot \in st.taken
        THEN st
        ELSE LET based == [old EXCEPT !.m_Res = res,
                                      !.m_StageFlags = @ \cup {stage_flag}]
                 entry ==
                     CASE res.m_BindingFamily = "BINDING_FAMILY_TEXTURE" ->
                            [based EXCEPT !.m_TextureUnit = info.m_TextureCount]
                       [] res.m_BindingFamily = "BINDING_FAMILY_STORAGE_BUFFER" ->
                            [based EXCEPT !.m_StorageBufferUnit =
                                              info.m_StorageBufferCount]
                       [] res.m_BindingFamily = "BINDING_FAMILY_UNIFORM_BUFFER" ->
                            [based EXCEPT !.m_DataOffset = info.m_UniformDataSize,
                                          !.m_DynamicOffsetIndex =
                                              info.m_UniformBufferCount]
                       [] OTHER -> based
                 counted ==
                     CASE res.m_BindingFamily = "BINDING_FAMILY_TEXTURE" ->
                            [info EXCEPT !.m_TextureCount = @ + 1,
                                         !.m_TotalUniformCount = @ + 1]
                       [] res.m_BindingFamily = "BINDING_FAMILY_STORAGE_BUFFER" ->
                            [info EXCEPT !.m_StorageBufferCount = @ + 1,
                                         !.m_TotalUniformCount = @ + 1]
                       [] res.m_BindingFamily = "BINDING_FAMILY_UNIFORM_BUFFER" ->
                            [info EXCEPT !.m_UniformBufferCount = @ + 1,
                                         !.m_UniformDataSize = @ + res.m_BlockSize,
                                         !.m_TotalUniformCount =
                                             @ + 1]
                       [] OTHER -> info
             IN  [taken |-> st.taken \cup {slot},
                  table |-> [st.table EXCEPT ![slot] = entry],
                  info  |-> [counted EXCEPT
                               !.m_MaxSet = Max(@, res.m_Set + 1),
                               !.m_MaxBinding = Max(@, res.m_Binding + 1)]]

\* FillOne that takes the number of uniform buffers for the data offset.
FillOne_OffsetByCount(st, res, stage_flag) ==
    LET slot == << res.m_Set, res.m_Binding >>
        old == st.table[slot]
        info == st.info
    IN  IF slot \in st.taken
        THEN st
        ELSE LET based == [old EXCEPT !.m_Res = res,
                                      !.m_StageFlags = @ \cup {stage_flag}]
                 entry ==
                     CASE res.m_BindingFamily = "BINDING_FAMILY_TEXTURE" ->
                            [based EXCEPT !.m_TextureUnit = info.m_TextureCount]
                       [] res.m_BindingFamily = "BINDING_FAMILY_STORAGE_BUFFER" ->
                            [based EXCEPT !.m_StorageBufferUnit =
                                              info.m_StorageBufferCount]
                       [] res.m_BindingFamily = "BINDING_FAMILY_UNIFORM_BUFFER" ->
                            [based EXCEPT !.m_DataOffset = info.m_UniformBufferCount,
                                          !.m_DynamicOffsetIndex =
                                              info.m_UniformBufferCount]
                       [] OTHER -> based
                 counted ==
                     CASE res.m_BindingFamily = "BINDING_FAMILY_TEXTURE" ->
                            [info EXCEPT !.m_TextureCount = @ + 1,
                                         !.m_TotalUniformCount = @ + 1]
                       [] res.m_BindingFamily = "BINDING_FAMILY_STORAGE_BUFFER" ->
                            [info EXCEPT !.m_StorageBufferCount = @ + 1,
                                         !.m_TotalUniformCount = @ + 1]
                       [] res.m_BindingFamily = "BINDING_FAMILY_UNIFORM_BUFFER" ->
                            [info EXCEPT !.m_UniformBufferCount = @ + 1,
                                         !.m_UniformDataSize = @ + res.m_BlockSize,
                                         !.m_TotalUniformCount =
                                             @ + Len(MembersOf(res))]
                       [] OTHER -> info
             IN  [taken |-> st.taken \cup {slot},
                  table |-> [st.table EXCEPT ![slot] = entry],
                  info  |-> [counted EXCEPT
                               !.m_MaxSet = Max(@, res.m_Set + 1),
                               !.m_MaxBinding = Max(@, res.m_Binding + 1)]]

\* The body of the loop of FillProgramResourceBindings for one resource: an
\* entry that is not taken gets the resource, the flag of the stage and its
\* unit or data offset; an entry that is taken is left as it is.
FillOne(st, res, stage_flag) ==
    LET slot == << res.m_Set, res.m_Binding >>
        old == st.table[slot]
        info == st.info
    IN  IF slot \in st.taken
        THEN st
        ELSE LET based == [old EXCEPT !.m_Res = res,
                                      !.m_StageFlags = @ \cup {stage_flag}]
                 entry ==
                     CASE res.m_BindingFamily = "BINDING_FAMILY_TEXTURE" ->
                            [based EXCEPT !.m_TextureUnit = info.m_TextureCount]
                       [] res.m_BindingFamily = "BINDING_FAMILY_STORAGE_BUFFER" ->
                            [based EXCEPT !.m_StorageBufferUnit =
                                              info.m_StorageBufferCount]
                       [] res.m_BindingFamily = "BINDING_FAMILY_UNIFORM_BUFFER" ->
                            [based EXCEPT !.m_DataOffset = info.m_UniformDataSize,
                                          !.m_DynamicOffsetIndex =
                                              info.m_UniformBufferCount]
                       [] OTHER -> based
                 counted ==
                     CASE res.m_BindingFamily = "BINDING_FAMILY_TEXTURE" ->
                            [info EXCEPT !.m_TextureCount = @ + 1,
                                         !.m_TotalUniformCount = @ + 1]
                       [] res.m_BindingFamily = "BINDING_FAMILY_STORAGE_BUFFER" ->
                            [info EXCEPT !.m_StorageBufferCount = @ + 1,
                                         !.m_TotalUniformCount = @ + 1]
                       [] res.m_BindingFamily = "BINDING_FAMILY_UNIFORM_BUFFER" ->
                            [info EXCEPT !.m_UniformBufferCount = @ + 1,
                                         !.m_UniformDataSize = @ + res.m_BlockSize,
                                         !.m_TotalUniformCount =
                                             @ + Len(MembersOf(res))]
                       [] OTHER -> info
             IN  [taken |-> st.taken \cup {slot},
                  table |-> [st.table EXCEPT ![slot] = entry],
                  info  |-> [counted EXCEPT
                               !.m_MaxSet = Max(@, res.m_Set + 1),
                               !.m_MaxBinding = Max(@, res.m_Binding + 1)]]

RECURSIVE FillProgramResourceBindings(_, _, _, _)
\* FillProgramResourceBindings(program, resources, ..., stage_flag, info):
\* for (i = 0; i < resources.Size(); ++i), from resource i on.
FillProgramResourceBindings(st, resources, stage_flag, i) ==
    IF i > Len(resources)
    THEN st
    ELSE FillProgramResourceBindings(FillOne(st, resources[i], stage_flag),
                                     resources, stage_flag, i + 1)

\* FillProgramResourceBindings(program, module, ...): the uniform buffers,
\* then the storage buffers, then the textures of the module.
FillModule(st, module, stage_flag) ==
    LET a == FillProgramResourceBindings(st, module.m_UniformBuffers, stage_flag, 1)
        b == FillProgramResourceBindings(a, module.m_StorageBuffers, stage_flag, 1)
    IN  FillProgramResourceBindings(b, module.m_Textures, stage_flag, 1)

\* CreateProgramResourceBindings: the vertex, then the fragment, then the
\* compute module.
CreateProgramResourceBindings(vertex_module, fragment_module, compute_module) ==
    LET s0 == [taken |-> {}, table |-> [slot \in TableSlots |-> EmptyBinding],
               info |-> EmptyBindingsInfo]
        s1 == FillModule(s0, vertex_module, "SHADER_STAGE_FLAG_VERTEX")
        s2 == FillModule(s1, fragment_module, "SHADER_STAGE_FLAG_FRAGMENT")
    IN  FillModule(s2, compute_module, "SHADER_STAGE_FLAG_COMPUTE")

\* The program DX12NewProgram returns; the root signature has one parameter
\* for every uniform buffer and two for every texture.
NewProgram(vertex_module, fragment_module) ==
    LET st == CreateProgramResourceBindings(vertex_module, fragment_module,
                                            NullModule)
    IN  [m_VertexModule |-> vertex_module,
         m_FragmentModule |-> fragment_module,
         m_ResourceBindings |-> st.table,
         m_UniformBufferCount |-> st.info.m_UniformBufferCount,
         m_TextureSamplerCount |-> st.info.m_TextureCount,
         m_UniformDataSize |-> st.info.m_UniformDataSize,
         m_TotalUniformCount |-> st.info.m_TotalUniformCount,
         m_MaxSet |-> st.info.m_MaxSet,
         m_MaxBinding |-> st.info.m_MaxBinding,
         root_parameter_count |->
             st.info.m_UniformBufferCount + st.info.m_TextureCount * 2]

NoShaderProgram == [m_ResourceBindings |-> << >>]

\* The offsets of the uniform blocks in m_UniformData.
DataOffsets(program) ==
    {program.m_ResourceBindings[slot].m_DataOffset :
        slot \in {x \in TableSlots :
                    program.m_ResourceBindings[x].m_Res.m_BindingFamily
                        = "BINDING_FAMILY_UNIFORM_BUFFER"}}

\* for (set ...) for (binding ...): the k-th entry the loops of
\* CommitUniforms visit.
LoopSlot(program, k) ==
    << (k - 1) \div program.m_MaxBinding, (k - 1) % program.m_MaxBinding >>

RECURSIVE CommitUniforms(_, _, _, _)
\* CommitUniforms from the k-th entry on: the root parameters bound so far and
\* the pools of the scratch buffer.
CommitUniforms(program, pools, bound, k) ==
    IF k > program.m_MaxSet * program.m_MaxBinding
    THEN [bound |-> bound, pools |-> pools]
    ELSE LET pgm_res == program.m_ResourceBindings[LoopSlot(program, k)]
             texture_unit_start == program.m_UniformBufferCount
             ix == texture_unit_start + pgm_res.m_TextureUnit * 2
         IN  CASE pgm_res.m_Res.m_BindingFamily = "BINDING_FAMILY_TEXTURE" ->
                    CommitUniforms(program, AllocateTexture2D(pools).pools,
                        bound \o << [root_index |-> ix, view |-> "texture",
                                     name |-> pgm_res.m_Res.m_Name],
                                    [root_index |-> ix + 1, view |-> "sampler",
                                     name |-> pgm_res.m_Res.m_Name] >>,
                        k + 1)
               [] pgm_res.m_Res.m_BindingFamily = "BINDING_FAMILY_UNIFORM_BUFFER" ->
                    CommitUniforms(program,
                        AllocateConstantBuffer(pools, pgm_res.m_Res.m_BlockSize).pools,
                        bound \o << [root_index |-> pgm_res.m_Res.m_Binding,
                                     view |-> "constant_buffer",
                                     name |-> pgm_res.m_Res.m_Name] >>,
                        k + 1)
               [] OTHER -> CommitUniforms(program, pools, bound, k + 1)

RECURSIVE RootParameterDescs(_, _, _, _)
\* The loops of DX12NewProgram that fill root_parameter_descs, from the k-th
\* entry on: the root parameters declared so far and ubo_ix.
RootParameterDescs(program, declared, ubo_ix, k) ==
    IF k > program.m_MaxSet * program.m_MaxBinding
    THEN declared
    ELSE LET pgm_res == program.m_ResourceBindings[LoopSlot(program, k)]
             texture_unit_start == program.m_UniformBufferCount
             ix == texture_unit_start + pgm_res.m_TextureUnit * 2
         IN  CASE pgm_res.m_Res.m_BindingFamily = "BINDING_FAMILY_TEXTURE" ->
                    RootParameterDescs(program,
                        declared \o << [root_index |-> ix, view |-> "texture",
                                        name |-> pgm_res.m_Res.m_Name],
                                       [root_index |-> ix + 1, view |-> "sampler",
                                        name |-> pgm_res.m_Res.m_Name] >>,
                        ubo_ix, k + 1)
               [] pgm_res.m_Res.m_BindingFamily = "BINDING_FAMILY_UNIFORM_BUFFER" ->
                    RootParameterDescs(program,
                        declared \o << [root_index |-> ubo_ix,
                                        view |-> "constant_buffer",
                                        name |-> pgm_res.m_Res.m_Name] >>,
                        ubo_ix + 1, k + 1)
               [] OTHER -> RootParameterDescs(program, declared, ubo_ix, k + 1)

\* WriteConstantData(offset, uniform_data_ptr, data_ptr, data_size)
WriteConstantData(offset, uniform_data, data) ==
    [uniform_data EXCEPT ![offset] = data]

NoCommit == [called |-> FALSE]

\* ------------------------------------------------------------ uniform lookup
\* set | binding << 16 | member << 32, by its three fields.
UniformLocation(set, binding, member) ==
    [set |-> set, binding |-> binding, member |-> member]

UNIFORM_LOCATION_MAX == 65535

INVALID_UNIFORM_LOCATION ==
    [set |-> UNIFORM_LOCATION_MAX, binding |-> UNIFORM_LOCATION_MAX,
     member |-> UNIFORM_LOCATION_MAX]

\* for (i = 0; i < num_members; ++i): the first member with the hash, from 0;
\* Len(members) when there is none.
FirstMember(members, name_hash) ==
    LET hits == {i \in 1 .. Len(members) : NameHash(members[i]) = name_hash}
    IN  IF hits = {} THEN Len(members)
        ELSE (CHOOSE i \in hits : \A j \in hits : i <= j) - 1

GetUniformLocation_FirstEntry(program, name_hash, k) == UniformLocation(0, 0, 0)

RECURSIVE GetUniformLocation(_, _, _)
\* GetUniformLocation(bindings, max_set, max_binding, name_hash) from the
\* k-th entry of the loops on.
GetUniformLocation(program, name_hash, k) ==
    IF k > program.m_MaxSet * program.m_MaxBinding
    THEN INVALID_UNIFORM_LOCATION
    ELSE LET slot == LoopSlot(program, k)
             pgm_res == program.m_ResourceBindings[slot]
             members == MembersOf(pgm_res.m_Res)
         IN  IF pgm_res.m_Res = NullRes
             THEN GetUniformLocation(program, name_hash, k + 1)
             ELSE IF NameHash(pgm_res.m_Res.m_Name) = name_hash
             THEN UniformLocation(slot[1], slot[2], 0)
             ELSE IF /\ UseTypeIndex(pgm_res.m_Res)
                     /\ FirstMember(members, name_hash) < Len(members)
             THEN UniformLocation(slot[1], slot[2],
                                  FirstMember(members, name_hash))
             ELSE GetUniformLocation(program, name_hash, k + 1)

NotFound == [found |-> FALSE]

RECURSIVE GetUniformName(_, _, _, _)
\* GetUniformName(bindings, max_set, max_binding, index, ...) from the k-th
\* entry of the loops on, with search_index entries counted so far: the
\* uniform found, or NotFound for the return value 0.
GetUniformName(program, index, k, search_index) ==
    IF k > program.m_MaxSet * program.m_MaxBinding
    THEN NotFound
    ELSE LET slot == LoopSlot(program, k)
             pgm_res == program.m_ResourceBindings[slot]
             members == MembersOf(pgm_res.m_Res)
         IN  CASE pgm_res.m_Res = NullRes ->
                    GetUniformName(program, index, k + 1, search_index)
               [] pgm_res.m_Res.m_BindingFamily \in
                      {"BINDING_FAMILY_TEXTURE", "BINDING_FAMILY_STORAGE_BUFFER"} ->
                    IF search_index = index
                    THEN [found |-> TRUE, name |-> pgm_res.m_Res.m_Name,
                          set |-> slot[1], binding |-> slot[2], member |-> 0]
                    ELSE GetUniformName(program, index, k + 1, search_index + 1)
               [] pgm_res.m_Res.m_BindingFamily = "BINDING_FAMILY_UNIFORM_BUFFER" ->
                    IF index - search_index < Len(members)
                    THEN [found |-> TRUE,
                          name |-> members[index - search_index + 1],
                          set |-> slot[1], binding |-> slot[2],
                          member |-> index - search_index]
                    ELSE GetUniformName(program, index, k + 1,
                                        search_index + Len(members))
               [] OTHER -> GetUniformName(program, index, k + 1, search_index)

NoCall == [called |-> FALSE]

\* ------------------------------------------------------------ device context
NullContext == "0x0"

\* DeleteContext(context) of the graphics API: the call goes through the
\* function table of the adapter to DX12DeleteContext, which deletes the
\* context and clears g_DX12Context.
DeleteContext(count) == [g_DX12Context |-> FALSE, count |-> count - 1]

\* DX12NewContext that keeps a context whose DX12Initialize failed.
NewContext_KeepFailed(g_DX12Context, initialized, count) ==
    IF ~g_DX12Context
    THEN [g_DX12Context |-> TRUE, count |-> count + 1,
          result |-> IF initialized THEN "g_DX12Context" ELSE NullContext]
    ELSE [g_DX12Context |-> TRUE, count |-> count, result |-> NullContext]

\* DX12NewContext: g_DX12Context, the number of DX12Context objects and the
\* HContext returned; DeleteContext on the failure path is DX12DeleteContext.
NewContext(g_DX12Context, initialized, count) ==
    IF ~g_DX12Context
    THEN IF initialized
         THEN [g_DX12Context |-> TRUE, count |-> count + 1,
               result |-> "g_DX12Context"]
         ELSE LET deleted == DeleteContext(count + 1)
              IN  [g_DX12Context |-> deleted.g_DX12Context,
                   count |-> deleted.count, result |-> NullContext]
    ELSE [g_DX12Context |-> TRUE, count |-> count, result |-> NullContext]

\* ------------------------------------------------------------ textures
\* TextureFormat values DX12SetTexture is called with: the last one stands for
\* the formats GetDXGIFormatFromTextureFormat has no case for.
TextureFormats ==
    {"TEXTURE_FORMAT_LUMINANCE", "TEXTURE_FORMAT_RGB", "TEXTURE_FORMAT_RGBA",
     "TEXTURE_FORMAT_RGB_16BPP", "TEXTURE_FORMAT_DEPTH", "TEXTURE_FORMAT_STENCIL",
     "TEXTURE_FORMAT_RGBA_BC7"}

TextureFilters == {"TEXTURE_FILTER_LINEAR", "TEXTURE_FILTER_DEFAULT"}    \* params.m_MinFilter
\* DX12Context::DX12Context: m_DefaultTextureMinFilter = params.m_DefaultTextureMinFilter
m_DefaultTextureMinFilter == "TEXTURE_FILTER_LINEAR"
MipMaps == 0 .. 2          \* params.m_MipMap
MipMapCounts == 1 .. 2     \* TextureCreationParams::m_MipMapCount
TextureResource == 1    \* the ID3D12Resource CreateCommittedResource stores in tex->m_Resource

\* The switch of GetDXGIFormatFromTextureFormat; a format with no case reaches
\* assert(0).
NoCase == "assert(0)"
GetDXGIFormatFromTextureFormat(format) ==
    CASE format = "TEXTURE_FORMAT_LUMINANCE" -> "DXGI_FORMAT_R8_UNORM"
      [] format = "TEXTURE_FORMAT_LUMINANCE_ALPHA" -> "DXGI_FORMAT_R8G8_UNORM"
      [] format = "TEXTURE_FORMAT_RGB" -> "DXGI_FORMAT_UNKNOWN"
      [] format = "TEXTURE_FORMAT_RGBA" -> "DXGI_FORMAT_R8G8B8A8_UNORM"
      [] format = "TEXTURE_FORMAT_RGB_16BPP" -> "DXGI_FORMAT_UNKNOWN"
      [] format = "TEXTURE_FORMAT_RGBA_16BPP" -> "DXGI_FORMAT_R16G16B16A16_UNORM"
      [] OTHER -> NoCase

\* DX12Initialize: CreateTextureSampler(context, TEXTURE_FILTER_LINEAR, ..., 1, 1.0f)
DefaultSampler == [m_MinFilter |-> "TEXTURE_FILTER_LINEAR", m_MaxLod |-> 1]

\* DX12NewTexture: memset(tex, 0, ...), m_MipMapCount = params.m_MipMapCount
NewTexture(mip_map_count) ==
    [m_Resource |-> NullHandle, m_MipMapCount |-> mip_map_count,
     m_TextureSamplerIndex |-> 0]

\* GetTextureSamplerIndex: the first sampler with these parameters, -1 if none
GetTextureSamplerIndex(samplers, minfilter, max_lod) ==
    LET resolved == IF minfilter = "TEXTURE_FILTER_DEFAULT"
                    THEN m_DefaultTextureMinFilter
                    ELSE minfilter
        hits == {i \in 1 .. Len(samplers) :
                    /\ samplers[i].m_MinFilter = resolved
                    /\ samplers[i].m_MaxLod = max_lod}
    IN  IF hits = {} THEN -1
        ELSE (CHOOSE i \in hits : \A j \in hits : i <= j) - 1

\* DX12SetTextureParamsInternal: the sampler list and the texture afterwards
SetTextureParamsInternal(samplers, tex, minfilter) ==
    LET sampler == samplers[tex.m_TextureSamplerIndex + 1]
        found == GetTextureSamplerIndex(samplers, minfilter, tex.m_MipMapCount)
    IN  IF sampler.m_MinFilter # minfilter \/ sampler.m_MaxLod # tex.m_MipMapCount
        THEN IF found < 0
             THEN [samplers |-> Append(samplers, [m_MinFilter |-> minfilter,
                                                  m_MaxLod |-> tex.m_MipMapCount]),
                   tex |-> [tex EXCEPT !.m_TextureSamplerIndex = Len(samplers)]]
             ELSE [samplers |-> samplers,
                   tex |-> [tex EXCEPT !.m_TextureSamplerIndex = found]]
        ELSE [samplers |-> samplers, tex |-> tex]

\* HRESULT of CreateCommittedResource for a texture of this DXGI format
CreateCommittedResource(dxgi_format) ==
    IF dxgi_format = "DXGI_FORMAT_UNKNOWN" THEN {"S_OK", "E_INVALIDARG"}
    ELSE {"S_OK"}

\* ------------------------------------------------------- deferred destruction
DestroyResourceDeferred_KeepHandle(list, resource) ==
    IF resource.m_Resource = NullHandle
    THEN [list |-> list, resource |-> resource]
    ELSE [list |-> Append(list, resource.m_Resource),
          resource |-> [resource EXCEPT !.m_Destroyed = 1]]

\* DestroyResourceDeferred(current_frame_resource, resource)
DestroyResourceDeferred(list, resource) ==
    IF resource.m_Resource = NullHandle
    THEN [list |-> list, resource |-> resource]
    ELSE [list |-> Append(list, resource.m_Resource),
          resource |-> [m_Resource |-> NullHandle, m_Destroyed |-> 1]]

\* Release() on every element of a list.
ReleaseAll(list, counts) ==
    [h \in DOMAIN counts |->
        counts[h] + Cardinality({i \in DOMAIN list : list[i] = h})]

FlushResourcesToDestroy_KeepList(list, counts) ==
    [list |-> list, counts |-> ReleaseAll(list, counts)]

\* FlushResourcesToDestroy(current_frame_resource)
FlushResourcesToDestroy(list, counts) ==
    IF Len(list) > 0
    THEN [list |-> << >>, counts |-> ReleaseAll(list, counts)]
    ELSE [list |-> list, counts |-> counts]

\* ------------------------------------------------------------------- queue
ExecEntry(alloc, refs) ==
    [kind |-> "exec", alloc |-> alloc, refs |-> refs, slot |-> 0, value |-> 0]
SignalEntry(s, v) ==
    [kind |-> "signal", alloc |-> 0, refs |-> {}, slot |-> s, value |-> v]

\* ------------------------------------------------------------ render constants
\* Name hashes the callers use.
ConstantNames == {"tint", "light"}
\* dmRenderDDF::MaterialDesc::ConstantType
ConstantTypes == {"CONSTANT_TYPE_USER", "CONSTANT_TYPE_USER_MATRIX4"}
\* The Vector4 values the callers pass.
Vector4s == {1, 2}
\* The Vector4 memset(p, 0, ...) leaves.
ZeroVector4 == 0
\* An element SetSize or AlignedMalloc made room for and nothing wrote yet.
Uninitialized == 0 - 1
\* The arrays of values a call is given: up to MaxCount times the same value.
ValueArrays == {[i \in 1 .. n |-> v] : n \in 0 .. MaxCount, v \in Vector4s}

\* n elements nothing wrote yet.
Fresh(n) == [i \in 1 .. n |-> Uninitialized]

\* memcpy(&array[start], values, count): elements start .. start + count - 1
\* (counted from 0) of the array become the values.
Memcpy(array, start, values) ==
    [i \in 1 .. Len(array) |->
        IF (i - 1) >= start /\ (i - 1) < start + Len(values)
        THEN values[i - start]
        ELSE array[i]]

\* Constant::Constant: m_Values(0), m_NumValues(0). m_Values is the storage
\* the pointer refers to, as long as the allocation that made it.
NewConstant == [m_Values |-> << >>, m_NumValues |-> 0]

\* GetConstantValues
GetConstantValues(c) ==
    [num_values |-> c.m_NumValues,
     values     |-> [i \in 1 .. c.m_NumValues |->
                        IF i <= Len(c.m_Values) THEN c.m_Values[i] ELSE Uninitialized]]

\* SetConstantValues with storage that is never replaced.
SetConstantValues_NeverGrow(c, values, malloc_ok) ==
    [result   |-> "RESULT_OK",
     copied   |-> Len(values),
     constant |-> [m_Values |-> Memcpy(c.m_Values, 0, values),
                   m_NumValues |-> Len(values)]]

\* SetConstantValues(constant, values, num_values); malloc_ok is what
\* dmMemory::AlignedMalloc answers when it is called.
SetConstantValues(c, values, malloc_ok) ==
    LET num_values == Len(values)
    IN  IF num_values > c.m_NumValues /\ ~malloc_ok
        THEN [result |-> "RESULT_OUT_OF_RESOURCES", copied |-> 0, constant |-> c]
        ELSE LET storage == IF num_values > c.m_NumValues
                            THEN Fresh(num_values)
                            ELSE c.m_Values
             IN  [result   |-> "RESULT_OK",
                  copied   |-> num_values,
                  constant |-> [m_Values |-> Memcpy(storage, 0, values),
                                m_NumValues |-> num_values]]

NoSetValues == [called |-> FALSE]

\* NewNamedConstantBuffer: no constants, no values.
NewNamedConstantBuffer == [m_Constants |-> << >>, m_Values |-> << >>]

\* buffer->m_Constants.Get(name_hash) # 0
HasConstant(buffer, name_hash) == name_hash \in DOMAIN buffer.m_Constants

\* buffer->m_Constants.Iterate(ShiftConstantIndices, &shift_context)
ShiftConstantIndices(constants, m_Index, m_NumValues, m_Direction) ==
    [n \in DOMAIN constants |->
        IF m_Direction = 0 /\ constants[n].m_ValueIndex > m_Index
        THEN [constants[n] EXCEPT !.m_ValueIndex = @ - m_NumValues]
        ELSE IF m_Direction = 1 /\ constants[n].m_ValueIndex > m_Index
             THEN [constants[n] EXCEPT !.m_ValueIndex = @ + m_NumValues]
             ELSE constants[n]]

\* &buffer->m_Values[index] names no element of the array: index is the size
\* of the array or more.
PastTheEnd(values, index) == index >= Len(values)

\* RemoveNamedConstant(buffer, name_hash). past_end tells that the call took
\* the address of an element the array does not have.
RemoveNamedConstant(buffer, name_hash) ==
    IF ~HasConstant(buffer, name_hash)
    THEN [buffer |-> buffer, past_end |-> FALSE]
    ELSE LET c == buffer.m_Constants[name_hash]
             values_index == c.m_ValueIndex
             num_values == c.m_NumValues
             size == Len(buffer.m_Values)
             moved == [i \in 1 .. (size - num_values) |->
                          IF (i - 1) < values_index
                          THEN buffer.m_Values[i]
                          ELSE buffer.m_Values[i + num_values]]
             erased == [n \in DOMAIN buffer.m_Constants \ {name_hash} |->
                           buffer.m_Constants[n]]
         IN  [buffer   |-> [m_Constants |-> ShiftConstantIndices(erased, values_index,
                                                                 num_values, 0),
                            m_Values    |-> moved],
              past_end |-> PastTheEnd(buffer.m_Values, values_index)]

\* constants.Put(name_hash, constant)
PutConstant(constants, name_hash, c) ==
    [n \in DOMAIN constants \cup {name_hash} |->
        IF n = name_hash THEN c ELSE constants[n]]

\* SetNamedConstant(buffer, name_hash, values, num_values, type)
SetNamedConstant(buffer, name_hash, values, type) ==
    LET num_values == Len(values)
        replace == HasConstant(buffer, name_hash)
                   /\ buffer.m_Constants[name_hash].m_NumValues # num_values
        removed == IF replace
                   THEN RemoveNamedConstant(buffer, name_hash)
                   ELSE [buffer |-> buffer, past_end |-> FALSE]
        b == removed.buffer
        put == IF HasConstant(b, name_hash)
               THEN b
               ELSE [m_Constants |->
                         PutConstant(b.m_Constants, name_hash,
                                     [m_ValueIndex |-> Len(b.m_Values),
                                      m_NumValues  |-> num_values,
                                      m_Type       |-> type]),
                     m_Values |-> b.m_Values \o Fresh(num_values)]
        c == put.m_Constants[name_hash]
    IN  [buffer   |-> [put EXCEPT !.m_Values = Memcpy(@, c.m_ValueIndex, values)],
         past_end |-> removed.past_end \/ PastTheEnd(put.m_Values, c.m_ValueIndex)]

\* The branch of SetNamedConstantAtIndex that grows a stored constant.
GrowConstant(buffer, name_hash, value_size) ==
    LET c == buffer.m_Constants[name_hash]
        values_index == c.m_ValueIndex
        num_values == c.m_NumValues
        num_values_expand == value_size - num_values
        sized == buffer.m_Values \o Fresh(num_values_expand)
        num_values_to_move == Len(sized) - value_size - values_index
        p_src == values_index + num_values
        p_dest == p_src + num_values_expand
        cleared == [i \in 1 .. Len(sized) |->
                       IF (i - 1) >= p_src /\ (i - 1) < p_dest
                       THEN ZeroVector4
                       ELSE sized[i]]
        moved == [i \in 1 .. Len(sized) |->
                     IF (i - 1) >= p_dest /\ (i - 1) < p_dest + num_values_to_move
                     THEN cleared[i - num_values_expand]
                     ELSE cleared[i]]
        grown == [buffer.m_Constants EXCEPT ![name_hash].m_NumValues = value_size]
    IN  [m_Constants |-> ShiftConstantIndices(grown, values_index,
                                              num_values_expand, 1),
         m_Values    |-> moved]

\* SetNamedConstantAtIndex(buffer, name_hash, values, num_values, value_index,
\* constant_type)
SetNamedConstantAtIndex(buffer, name_hash, values, value_index, constant_type) ==
    LET num_values == Len(values)
        value_size == value_index + num_values
    IN  IF HasConstant(buffer, name_hash)
           /\ buffer.m_Constants[name_hash].m_NumValues > 0
           /\ buffer.m_Constants[name_hash].m_Type # constant_type
        THEN [result |-> "RESULT_TYPE_MISMATCH", buffer |-> buffer,
              past_end |-> FALSE]
        ELSE LET b == IF ~HasConstant(buffer, name_hash)
                      THEN [m_Constants |->
                                PutConstant(buffer.m_Constants, name_hash,
                                            [m_ValueIndex |-> Len(buffer.m_Values),
                                             m_NumValues  |-> value_size,
                                             m_Type       |-> constant_type]),
                            m_Values |-> buffer.m_Values \o Fresh(value_size)]
                      ELSE IF buffer.m_Constants[name_hash].m_NumValues < value_size
                           THEN GrowConstant(buffer, name_hash, value_size)
                           ELSE buffer
                 c == b.m_Constants[name_hash]
             IN  [result   |-> "RESULT_OK",
                  buffer   |-> [b EXCEPT !.m_Values =
                                   Memcpy(@, c.m_ValueIndex + value_index, values)],
                  past_end |-> PastTheEnd(b.m_Values, c.m_ValueIndex)]

\* ClearNamedConstantBuffer
ClearNamedConstantBuffer(buffer) == NewNamedConstantBuffer

\* GetNamedConstant(buffer, name_hash, &values, &num_values, &constant_type)
GetNamedConstant(buffer, name_hash) ==
    IF ~HasConstant(buffer, name_hash)
    THEN [found |-> FALSE, values |-> << >>, num_values |-> 0,
          constant_type |-> "CONSTANT_TYPE_USER"]
    ELSE LET c == buffer.m_Constants[name_hash]
         IN  [found         |-> TRUE,
              values        |-> [i \in 1 .. c.m_NumValues |->
                                    IF c.m_ValueIndex + i <= Len(buffer.m_Values)
                                    THEN buffer.m_Values[c.m_ValueIndex + i]
                                    ELSE Uninitialized],
              num_values    |-> c.m_NumValues,
              constant_type |-> c.m_Type]

\* GetNamedConstantCount
GetNamedConstantCount(buffer) == Cardinality(DOMAIN buffer.m_Constants)

\* m_NumValues of the constant a call names, before the call.
NotStored == 0 - 1
StoredCount(buffer, name_hash) ==
    IF HasConstant(buffer, name_hash)
    THEN buffer.m_Constants[name_hash].m_NumValues
    ELSE NotStored

NoNamedCall ==
    [call |-> "none", name_hash |-> "", values |-> << >>, value_index |-> 0,
     constant_type |-> "", result |-> "", old_count |-> NotStored, old_total |-> 0]

\* ------------------------------------------------------------ render passes
\* rt->m_Id of the render target of the main framebuffer
DM_RENDERTARGET_BACKBUFFER_ID == "DM_RENDERTARGET_BACKBUFFER_ID"
\* m_FrameResources[s].m_RenderTarget.m_Resource: the back buffer of slot s
BackBuffer(s) == s + 1
\* SetupMainRenderTarget: new DX12RenderTarget(), bound to nothing yet.
SetupMainRenderTarget ==
    [m_Id |-> DM_RENDERTARGET_BACKBUFFER_ID, m_Resource |-> NullHandle, m_IsBound |-> 0]

\* CD3DX12_RESOURCE_BARRIER::Transition(resource, before, after) recorded on
\* the command list: appended to what was recorded for the resource.
ResourceBarrier(log, resource, before, after) ==
    [b \in DOMAIN log |->
        IF BackBuffer(b) = resource
        THEN Append(log[b], [before |-> before, after |-> after])
        ELSE log[b]]

\* EndRenderPass(context); current_rt is the current render target.
EndRenderPass(current_rt, log) ==
    IF current_rt.m_IsBound = 0
    THEN [returned |-> FALSE, rt |-> current_rt, log |-> log]
    ELSE [returned |-> TRUE,
          rt       |-> [current_rt EXCEPT !.m_IsBound = 0],
          log      |-> IF current_rt.m_Id = DM_RENDERTARGET_BACKBUFFER_ID
                       THEN ResourceBarrier(log, current_rt.m_Resource,
                                            "D3D12_RESOURCE_STATE_RENDER_TARGET",
                                            "D3D12_RESOURCE_STATE_PRESENT")
                       ELSE log]

\* BeginRenderPass that records its barrier also for a bound target.
BeginRenderPass_AlwaysRecord(current_rt, log) ==
    [rt  |-> [current_rt EXCEPT !.m_IsBound = 1],
     log |-> ResourceBarrier(log, current_rt.m_Resource,
                             "D3D12_RESOURCE_STATE_PRESENT",
                             "D3D12_RESOURCE_STATE_RENDER_TARGET")]

\* BeginRenderPass(context, context->m_MainRenderTarget): the main render
\* target is the only one, so render_target is the current render target.
BeginRenderPass(current_rt, log) ==
    IF current_rt.m_IsBound = 1
    THEN [rt |-> current_rt, log |-> log]
    ELSE [rt  |-> [current_rt EXCEPT !.m_IsBound = 1],
          log |-> IF current_rt.m_Id = DM_RENDERTARGET_BACKBUFFER_ID
                  THEN ResourceBarrier(log, current_rt.m_Resource,
                                       "D3D12_RESOURCE_STATE_PRESENT",
                                       "D3D12_RESOURCE_STATE_RENDER_TARGET")
                  ELSE log]

\* The barriers recorded so far.
RECURSIVE BarrierCount(_, _)
BarrierCount(log, slots) ==
    IF slots = {} THEN 0
    ELSE LET b == CHOOSE x \in slots : TRUE
         IN  Len(log[b]) + BarrierCount(log, slots \ {b})

NoPass == [call |-> "none", returned |-> FALSE, recorded |-> 0, was_bound |-> 0]

\* ---------------------------------------------------------------------- Init
\* The state DX12Initialize leaves behind.
InitContext ==
    /\ live = TRUE
    /\ pc = "idle"
    /\ m_CurrentFrameIndex = 0
    /\ backBufferIndex = 0
    /\ m_FrameBegun = 0
    /\ m_FenceValue = [s \in Slots |-> RENDER_CONTEXT_STATE_FREE]
    /\ fenceCompleted = [s \in Slots |-> FENCE_INITIAL_VALUE]
    /\ m_ResourcesToDestroy = [s \in Slots |-> << >>]
    /\ m_MemoryPools = [s \in Slots |-> ScratchInitialize]
    /\ buffers = [b \in Buffers |-> [m_Resource |-> NullHandle, m_Destroyed |-> 0]]
    /\ nextHandle = 1
    /\ releaseCount = [h \in Handles |-> 0]
    /\ cmdList = [open |-> FALSE, alloc |-> 0, refs |-> {}]
    /\ gpuQueue = << >>
    /\ deviceLost = FALSE
    /\ lastSignaled = [s \in Slots |-> NoFence]
    /\ scratchWrites = [k \in ScratchRegions |-> NoFence]
    /\ drawCount = 0
    /\ aborted = FALSE
    /\ lastAlloc = NoAlloc
    /\ m_PipelineState = [m_CullFaceType |-> "FACE_TYPE_BACK"]
    /\ m_CurrentProgram = NoProgram
    /\ m_CurrentVertexDeclaration = NoDeclaration
    /\ m_PipelineCache = [capacity |-> 0, entries |-> << >>]
    /\ synthesized = << >>
    /\ lastPipeline = NoPipelineCall
    /\ shaderProgram = NoShaderProgram
    /\ builtProgram = NoShaderProgram
    /\ m_UniformData = << >>
    /\ lastCommit = NoCommit
    /\ lastLookup = NoCall
    /\ lastName = NoCall
    /\ m_TextureSamplers = << DefaultSampler >>
    /\ texture = NewTexture(1)
    /\ lastSetTexture = NoCall
    /\ contextCount = 1
    /\ lastNewContext = NoCall
    /\ undo_stack = << >>
    /\ redo_stack = << >>
    /\ returnedOffsets = [i \in Pools |-> << >>]
    /\ namedBuffer = NewNamedConstantBuffer
    /\ lastNamedCall = NoNamedCall
    /\ constant = NewConstant
    /\ lastSetValues = NoSetValues
    /\ mainTarget = SetupMainRenderTarget
    /\ barriers = [b \in Slots |-> << >>]
    /\ lastPass = NoPass

\* DX12Context::DX12Context: m_VerifyGraphicsCalls = params.m_VerifyGraphicsCalls
Init ==
    /\ InitContext
    /\ m_VerifyGraphicsCalls = FALSE

InitVerify ==
    /\ InitContext
    /\ m_VerifyGraphicsCalls \in BOOLEAN

\* ------------------------------------------------------------ SyncronizeFrame
RECURSIVE FramesStarted(_, _)
\* Frames started so far: every SyncronizeFrame increments one m_FenceValue.
FramesStarted(fv, s) ==
    IF s >= MAX_FRAMEBUFFERS THEN 0
    ELSE (fv[s] - RENDER_CONTEXT_STATE_FREE) + FramesStarted(fv, s + 1)

NeedsWait_Never(s) == FALSE

\* SyncronizeFrame: GetCompletedValue() < m_FenceValue
NeedsWait(s) == fenceCompleted[s] < m_FenceValue[s]

EventSignaled_AtOnce(s) == TRUE

\* SetEventOnCompletion(m_FenceValue, m_FenceEvent): the event WaitForSingleObject
\* waits for is set once the fence has reached m_FenceValue.
EventSignaled(s) == fenceCompleted[s] >= m_FenceValue[s]

FenceIncrement_None(v) == v

\* SyncronizeFrame: current_frame_resource.m_FenceValue++
FenceIncrement(v) == v + 1

\* SyncronizeFrame up to the wait: either the fence is already there and the
\* function runs to its end, or the thread blocks in WaitForSingleObject.
SyncronizeFrame ==
    /\ live /\ pc = "idle"
    /\ FramesStarted(m_FenceValue, 0) < MaxFrames
    /\ m_CurrentFrameIndex' = backBufferIndex
    /\ IF NeedsWait(backBufferIndex)
       THEN /\ pc' = "wait"
            /\ UNCHANGED m_FenceValue
       ELSE /\ pc' = "synced"
            /\ m_FenceValue' = [m_FenceValue EXCEPT
                                  ![backBufferIndex] = FenceIncrement(@)]
    /\ UNCHANGED << live, backBufferIndex, m_FrameBegun, fenceCompleted,
                    m_ResourcesToDestroy, m_MemoryPools, buffers, nextHandle,
                    releaseCount, cmdList, gpuQueue, deviceLost, lastSignaled,
                    scratchWrites, drawCount >>
    /\ UNCHANGED auxVars

\* SyncronizeFrame from the return of WaitForSingleObject(m_FenceEvent, INFINITE):
\* the event is set once the fence has reached m_FenceValue.
WaitForSingleObject ==
    /\ live /\ pc = "wait"
    /\ EventSignaled(m_CurrentFrameIndex)
    /\ pc' = "synced"
    /\ m_FenceValue' = [m_FenceValue EXCEPT
                          ![m_CurrentFrameIndex] = FenceIncrement(@)]
    /\ UNCHANGED << live, m_CurrentFrameIndex, backBufferIndex, m_FrameBegun,
                    fenceCompleted, m_ResourcesToDestroy, m_MemoryPools,
                    buffers, nextHandle, releaseCount, cmdList, gpuQueue,
                    deviceLost, lastSignaled, scratchWrites, drawCount >>
    /\ UNCHANGED auxVars

\* -------------------------------------------------------------- DX12BeginFrame
\* DX12BeginFrame after SyncronizeFrame: m_CommandAllocator->Reset() and
\* FlushResourcesToDestroy(current_frame_resource).
DX12BeginFrame_Flush ==
    /\ live /\ pc = "synced"
    /\ LET s == m_CurrentFrameIndex
           r == FlushResourcesToDestroy(m_ResourcesToDestroy[s], releaseCount)
       IN  /\ m_ResourcesToDestroy' = [m_ResourcesToDestroy EXCEPT ![s] = r.list]
           /\ releaseCount' = r.counts
    /\ pc' = "flushed"
    /\ UNCHANGED << live, m_CurrentFrameIndex, backBufferIndex, m_FrameBegun,
                    m_FenceValue, fenceCompleted, m_MemoryPools, buffers,
                    nextHandle, cmdList, gpuQueue, deviceLost, lastSignaled,
                    scratchWrites, drawCount >>
    /\ UNCHANGED auxVars

\* DX12BeginFrame to its end: m_CommandList->Reset(allocator of the slot),
\* m_ScratchBuffer.Reset, m_FrameBegun = 1.
DX12BeginFrame_Record ==
    /\ live /\ pc = "flushed"
    /\ LET s == m_CurrentFrameIndex
       IN  /\ cmdList' = [open |-> TRUE, alloc |-> s, refs |-> {}]
           /\ m_MemoryPools' = [m_MemoryPools EXCEPT ![s] = ScratchReset(@)]
    /\ m_FrameBegun' = 1
    /\ pc' = "idle"
    /\ UNCHANGED << live, m_CurrentFrameIndex, backBufferIndex, m_FenceValue,
                    fenceCompleted, m_ResourcesToDestroy, buffers, nextHandle,
                    releaseCount, gpuQueue, deviceLost, lastSignaled,
                    scratchWrites, drawCount >>
    /\ UNCHANGED auxVars

\* -------------------------------------------------------------------- DX12Flip
\* DX12Flip: Close, ExecuteCommandLists, Signal(fence, m_FenceValue), Present.
DX12Flip ==
    /\ live /\ pc = "idle"
    /\ Len(gpuQueue) + 2 <= MaxQueue
    /\ LET s == m_CurrentFrameIndex
       IN  /\ gpuQueue' = gpuQueue \o << ExecEntry(cmdList.alloc, cmdList.refs),
                                         SignalEntry(s, m_FenceValue[s]) >>
           /\ lastSignaled' = [lastSignaled EXCEPT ![s] = m_FenceValue[s]]
    /\ cmdList' = [cmdList EXCEPT !.open = FALSE]
    /\ backBufferIndex' = (backBufferIndex + 1) % MAX_FRAMEBUFFERS
    /\ m_FrameBegun' = 0
    /\ UNCHANGED << live, pc, m_CurrentFrameIndex, m_FenceValue, fenceCompleted,
                    m_ResourcesToDestroy, m_MemoryPools, buffers, nextHandle,
                    releaseCount, deviceLost, scratchWrites, drawCount >>
    /\ UNCHANGED auxVars

\* m_FrameResources[m_CurrentFrameIndex] with the index always 0.
FrameResourceOf_First(frame_index) == 0

\* The frame slot a retire or a draw works on:
\* m_FrameResources[m_CurrentFrameIndex].
FrameResourceOf(frame_index) == frame_index

\* --------------------------------------------------------------------- buffers
\* DX12DeleteVertexBuffer / DX12DeleteIndexBuffer
DX12DeleteVertexBuffer(b) ==
    /\ live /\ pc = "idle"
    /\ LET s == FrameResourceOf(m_CurrentFrameIndex)
           r == DestroyResourceDeferred(m_ResourcesToDestroy[s], buffers[b])
       IN  /\ m_ResourcesToDestroy' = [m_ResourcesToDestroy EXCEPT ![s] = r.list]
           /\ buffers' = [buffers EXCEPT ![b] = r.resource]
    /\ UNCHANGED << live, pc, m_CurrentFrameIndex, backBufferIndex, m_FrameBegun,
                    m_FenceValue, fenceCompleted, m_MemoryPools, nextHandle,
                    releaseCount, cmdList, gpuQueue, deviceLost, lastSignaled,
                    scratchWrites, drawCount >>
    /\ UNCHANGED auxVars

\* DX12SetVertexBufferData / DX12SetIndexBufferData with size > 0:
\* DestroyResourceDeferred, then DeviceBufferUploadHelper (which returns at
\* once when data is null, creates the device buffer otherwise, records the
\* copy and, when no frame is begun, resets the command list on the allocator
\* of slot 0, closes it and executes it).
DX12SetVertexBufferData(b, hasData) ==
    /\ live /\ pc = "idle"
    /\ LET s == FrameResourceOf(m_CurrentFrameIndex)
           r == DestroyResourceDeferred(m_ResourcesToDestroy[s], buffers[b])
       IN  /\ m_ResourcesToDestroy' = [m_ResourcesToDestroy EXCEPT ![s] = r.list]
           /\ IF ~hasData
              THEN /\ buffers' = [buffers EXCEPT ![b] = r.resource]
                   /\ UNCHANGED << nextHandle, cmdList, gpuQueue >>
              ELSE /\ nextHandle <= MaxHandles
                   /\ buffers' = [buffers EXCEPT ![b] =
                                    [r.resource EXCEPT !.m_Resource = nextHandle]]
                   /\ nextHandle' = nextHandle + 1
                   /\ IF m_FrameBegun = 0
                      THEN /\ Len(gpuQueue) + 1 <= MaxQueue
                           /\ cmdList' = [open |-> FALSE, alloc |-> 0,
                                          refs |-> {nextHandle}]
                           /\ gpuQueue' = Append(gpuQueue, ExecEntry(0, {nextHandle}))
                      ELSE /\ cmdList' = [cmdList EXCEPT !.refs = @ \cup {nextHandle}]
                           /\ UNCHANGED gpuQueue
    /\ UNCHANGED << live, pc, m_CurrentFrameIndex, backBufferIndex, m_FrameBegun,
                    m_FenceValue, fenceCompleted, m_MemoryPools, releaseCount,
                    deviceLost, lastSignaled, scratchWrites, drawCount >>
    /\ UNCHANGED auxVars

\* ---------------------------------------------------------------------- draws
\* History of the scratch memory: the region at <<slot, pool, offset>> was last
\* written in the frame that signals the given fence value.
WriteRegion(writes, s, pool, offset, fence) ==
    [k \in DOMAIN writes |->
        IF k = << s, pool, offset >> THEN fence ELSE writes[k]]

\* DX12Draw inside a frame, with vertex buffer b bound and a program that has
\* one uniform block of the given size and one texture: DrawSetup
\* records the vertex buffer view and CommitUniforms allocates from the
\* scratch buffer of the current frame slot.
DX12Draw(b, size) ==
    /\ live /\ pc = "idle"
    /\ m_FrameBegun = 1
    /\ buffers[b].m_Resource # NullHandle
    /\ LET s  == FrameResourceOf(m_CurrentFrameIndex)
           a  == AllocateConstantBuffer(m_MemoryPools[s], size)
           p2 == AllocateTexture2D(a.pools).pools
       IN  /\ drawCount < MaxDraws
           /\ drawCount' = drawCount + 1
           /\ m_MemoryPools' = [m_MemoryPools EXCEPT ![s] = p2]
           /\ scratchWrites' = WriteRegion(scratchWrites, s, a.pool_index,
                                           a.cpu_offset, m_FenceValue[s])
    /\ cmdList' = [cmdList EXCEPT !.refs = @ \cup {buffers[b].m_Resource}]
    /\ UNCHANGED << live, pc, m_CurrentFrameIndex, backBufferIndex, m_FrameBegun,
                    m_FenceValue, fenceCompleted, m_ResourcesToDestroy, buffers,
                    nextHandle, releaseCount, gpuQueue, deviceLost, lastSignaled >>
    /\ UNCHANGED auxVars

\* ----------------------------------------------------------- DX12DeleteContext
\* FlushAllSlots that flushes the first frame slot only.
FlushAllSlots_FirstOnly(i, lists, counts) ==
    LET r == FlushResourcesToDestroy(lists[0], counts)
    IN  [lists |-> [lists EXCEPT ![0] = r.list], counts |-> r.counts]

RECURSIVE FlushAllSlots(_, _, _)
\* DX12DeleteContext: for (i = 0; i < DM_ARRAY_SIZE(m_FrameResources); i++)
\*     FlushResourcesToDestroy(m_FrameResources[i])
FlushAllSlots(i, lists, counts) ==
    IF i >= MAX_FRAMEBUFFERS
    THEN [lists |-> lists, counts |-> counts]
    ELSE LET r == FlushResourcesToDestroy(lists[i], counts)
         IN  FlushAllSlots(i + 1, [lists EXCEPT ![i] = r.list], r.counts)

\* DX12DeleteContext: FlushResourcesToDestroy for every frame slot, then the
\* context is deleted.
DX12DeleteContext ==
    /\ live /\ pc = "idle"
    /\ LET r == FlushAllSlots(0, m_ResourcesToDestroy, releaseCount)
       IN  /\ m_ResourcesToDestroy' = r.lists
           /\ releaseCount' = r.counts
    /\ contextCount' = contextCount - 1
    /\ live' = FALSE
    /\ UNCHANGED << pc, m_CurrentFrameIndex, backBufferIndex, m_FrameBegun,
                    m_FenceValue, fenceCompleted, m_MemoryPools, buffers,
                    nextHandle, cmdList, gpuQueue, deviceLost, lastSignaled,
                    scratchWrites, drawCount >>
    /\ UNCHANGED << scratchAux, pipelineVars, bindingVars, lookupVars, textureVars,
                    lastNewContext, historyVars, constantVars, renderPassVars, returnedOffsets >>

\* ------------------------------------------------------------------------ GPU
\* The GPU takes the oldest entry of the queue: a command list is executed, a
\* Signal sets the fence to its value.
GPUExecute ==
    /\ live /\ ~deviceLost
    /\ gpuQueue # << >>
    /\ LET e == Head(gpuQueue)
       IN  fenceCompleted' = IF e.kind = "signal"
                             THEN [fenceCompleted EXCEPT ![e.slot] = e.value]
                             ELSE fenceCompleted
    /\ gpuQueue' = Tail(gpuQueue)
    /\ UNCHANGED << live, pc, m_CurrentFrameIndex, backBufferIndex, m_FrameBegun,
                    m_FenceValue, m_ResourcesToDestroy, m_MemoryPools, buffers,
                    nextHandle, releaseCount, cmdList, deviceLost, lastSignaled,
                    scratchWrites, drawCount >>
    /\ UNCHANGED auxVars

\* The device is removed: the GPU executes nothing from here on.
DeviceRemoved ==
    /\ live /\ ~deviceLost
    /\ deviceLost' = TRUE
    /\ UNCHANGED << live, pc, m_CurrentFrameIndex, backBufferIndex, m_FrameBegun,
                    m_FenceValue, fenceCompleted, m_ResourcesToDestroy,
                    m_MemoryPools, buffers, nextHandle, releaseCount, cmdList,
                    gpuQueue, lastSignaled, scratchWrites, drawCount >>
    /\ UNCHANGED auxVars

Next ==
    \/ SyncronizeFrame
    \/ WaitForSingleObject
    \/ DX12BeginFrame_Flush
    \/ DX12BeginFrame_Record
    \/ DX12Flip
    \/ \E b \in Buffers : DX12DeleteVertexBuffer(b)
    \/ \E b \in Buffers, hasData \in BOOLEAN : DX12SetVertexBufferData(b, hasData)
    \/ \E b \in Buffers, size \in DrawSizes : DX12Draw(b, size)
    \/ DX12DeleteContext
    \/ GPUExecute

Spec == Init /\ [][Next]_vars

\* The same program on a device that may be removed at any moment.
NextDeviceLoss ==
    \/ Next
    \/ DeviceRemoved

SpecDeviceLoss == Init /\ [][NextDeviceLoss]_vars

\* ======================================================================
\* The scratch buffer of the current frame slot, called directly
\* ======================================================================
\* Everything of the frame lifecycle but the scratch buffers.
frameVarsButPools ==
    << live, pc, m_CurrentFrameIndex, backBufferIndex, m_FrameBegun,
       m_FenceValue, fenceCompleted, m_ResourcesToDestroy, buffers, nextHandle,
       releaseCount, cmdList, gpuQueue, deviceLost, lastSignaled,
       scratchWrites, drawCount >>

\* m_ScratchBuffer.AllocateConstantBuffer(context, buffer_index, size): the
\* assert ends the process when it fails; otherwise the view is bound to root
\* slot buffer_index, the cursors advance and the CPU pointer is returned.
ScratchAllocateConstantBuffer(buffer_index, size) ==
    /\ live /\ ~aborted
    /\ LET pools == m_MemoryPools[m_CurrentFrameIndex]
       IN  IF ~AssertSize(size)
           THEN /\ aborted' = TRUE
                /\ lastAlloc' = OtherCall("assert", size, buffer_index, pools)
                /\ UNCHANGED << m_MemoryPools, returnedOffsets >>
           ELSE LET a == AllocateConstantBuffer(pools, size)
                IN  /\ a.pools[a.pool_index].m_DescriptorCursor <= MaxAllocs
                    /\ m_MemoryPools' =
                          [m_MemoryPools EXCEPT ![m_CurrentFrameIndex] = a.pools]
                    /\ lastAlloc' = [call |-> "constant", size |-> size,
                                     buffer_index |-> buffer_index,
                                     pool_index |-> a.pool_index,
                                     cpu_offset |-> a.cpu_offset,
                                     gpu_pool |-> a.gpu_pool,
                                     gpu_offset |-> a.gpu_offset,
                                     bound |-> TRUE, before |-> pools]
                    /\ returnedOffsets' =
                          [returnedOffsets EXCEPT
                              ![a.pool_index] = Append(@, a.cpu_offset)]
                    /\ UNCHANGED aborted
    /\ UNCHANGED << frameVarsButPools, pipelineVars, bindingVars, lookupVars,
                    textureVars, contextVars, historyVars, constantVars, renderPassVars >>

\* m_ScratchBuffer.AllocateTexture2D(context, texture, ix, sampler, ix + 1)
ScratchAllocateTexture2D ==
    /\ live /\ ~aborted
    /\ LET pools == m_MemoryPools[m_CurrentFrameIndex]
           a == AllocateTexture2D(pools)
       IN  /\ a.pools[0].m_DescriptorCursor <= MaxAllocs
           /\ m_MemoryPools' =
                 [m_MemoryPools EXCEPT ![m_CurrentFrameIndex] = a.pools]
           /\ lastAlloc' = OtherCall("texture", 0, 0, pools)
    /\ UNCHANGED << aborted, frameVarsButPools, pipelineVars, bindingVars, extraVars >>

\* m_ScratchBuffer.Reset(context)
ScratchResetCall ==
    /\ live /\ ~aborted
    /\ LET pools == m_MemoryPools[m_CurrentFrameIndex]
       IN  /\ m_MemoryPools' =
                 [m_MemoryPools EXCEPT ![m_CurrentFrameIndex] = ScratchReset(pools)]
           /\ lastAlloc' = OtherCall("reset", 0, 0, pools)
           /\ returnedOffsets' = [i \in Pools |-> << >>]
    /\ UNCHANGED << aborted, frameVarsButPools, pipelineVars, bindingVars, lookupVars,
                    textureVars, contextVars, historyVars, constantVars, renderPassVars >>

NextScratch ==
    \/ \E buffer_index \in RootSlots, size \in AllocSizes :
          ScratchAllocateConstantBuffer(buffer_index, size)
    \/ ScratchAllocateTexture2D
    \/ ScratchResetCall

SpecScratch == Init /\ [][NextScratch]_vars

\* ======================================================================
\* One frame that allocates until its pools are used up
\* ======================================================================
\* Initialize: the size of the upload heap every pool maps.
memory_heap_size == 1024 * 64
\* Initialize: heap_Desc.NumDescriptors of every pool.
DESCRIPTORS_PER_POOL == 256

\* A draw's uniform block: AllocateConstantBuffer as the code runs it, with
\* no test of the cursor; the run is followed MaxOverrun blocks past the heap.
DrawAllocateConstantBuffer(buffer_index, size) ==
    /\ live /\ ~aborted
    /\ AssertSize(size)
    /\ LET pools == m_MemoryPools[m_CurrentFrameIndex]
           a == AllocateConstantBuffer(pools, size)
       IN  /\ a.cpu_offset < memory_heap_size + MaxOverrun * BlockSize(a.pool_index)
           /\ m_MemoryPools' =
                 [m_MemoryPools EXCEPT ![m_CurrentFrameIndex] = a.pools]
           /\ lastAlloc' = [call |-> "constant", size |-> size,
                            buffer_index |-> buffer_index,
                            pool_index |-> a.pool_index,
                            cpu_offset |-> a.cpu_offset,
                            gpu_pool |-> a.gpu_pool,
                            gpu_offset |-> a.gpu_offset,
                            bound |-> TRUE, before |-> pools]
    /\ UNCHANGED << aborted, frameVarsButPools, pipelineVars, bindingVars, extraVars >>

\* A draw's texture: AllocateTexture2D as the code runs it, with no test of
\* the descriptor cursor; followed MaxOverrun slots past the descriptor heap.
DrawAllocateTexture2D ==
    /\ live /\ ~aborted
    /\ LET pools == m_MemoryPools[m_CurrentFrameIndex]
           a == AllocateTexture2D(pools)
       IN  /\ a.descriptor < DESCRIPTORS_PER_POOL + MaxOverrun
           /\ m_MemoryPools' =
                 [m_MemoryPools EXCEPT ![m_CurrentFrameIndex] = a.pools]
           /\ lastAlloc' = OtherCall("texture", 0, 0, pools)
    /\ UNCHANGED << aborted, frameVarsButPools, pipelineVars, bindingVars, extraVars >>

NextCapacity ==
    \/ DrawAllocateConstantBuffer(0, MAX_BLOCK_SIZE - 1)
    \/ DrawAllocateTexture2D

SpecCapacity == Init /\ [][NextCapacity]_vars

\* ======================================================================
\* The pipeline cache, driven by the state setters and by draws
\* ======================================================================
frameVars == << frameVarsButPools, m_MemoryPools >>

\* DX12EnableProgram(context, program)
DX12EnableProgram(program) ==
    /\ live
    /\ m_CurrentProgram' = program
    /\ UNCHANGED << frameVars, scratchAux, bindingVars, extraVars, m_PipelineState,
                    m_CurrentVertexDeclaration, m_PipelineCache, synthesized,
                    lastPipeline >>

\* DX12SetCullFace(context, face_type)
DX12SetCullFace(face_type) ==
    /\ live
    /\ m_PipelineState' = [m_PipelineState EXCEPT !.m_CullFaceType = face_type]
    /\ UNCHANGED << frameVars, scratchAux, bindingVars, extraVars, m_CurrentProgram,
                    m_CurrentVertexDeclaration, m_PipelineCache, synthesized,
                    lastPipeline >>

\* DX12EnableVertexDeclaration(context, vertex_declaration, 0, program): the
\* stride and the streams of the declaration are copied into
\* m_MainVertexDeclaration[0], which becomes the current declaration.
DX12EnableVertexDeclaration(vertex_declaration) ==
    /\ live
    /\ m_CurrentVertexDeclaration' = vertex_declaration
    /\ UNCHANGED << frameVars, scratchAux, bindingVars, extraVars, m_PipelineState,
                    m_CurrentProgram, m_PipelineCache, synthesized, lastPipeline >>

\* DrawSetup up to SetPipelineState: assert(m_CurrentProgram), then
\* GetOrCreatePipeline on the current render target.
DrawSetup_Pipeline ==
    /\ live
    /\ m_CurrentProgram # NoProgram
    /\ LET r == GetOrCreatePipeline(m_PipelineCache, m_PipelineState,
                                    MainRenderTarget, m_CurrentProgram,
                                    m_CurrentVertexDeclaration, synthesized)
       IN  /\ m_PipelineCache' = r.cache
           /\ synthesized' = IF r.created
                             THEN CountCreate(synthesized, r.hash)
                             ELSE synthesized
           /\ lastPipeline' = [called |-> TRUE, created |-> r.created,
                               pipeline |-> r.pipeline,
                               program |-> m_CurrentProgram,
                               rt |-> MainRenderTarget,
                               input_layout |-> m_CurrentVertexDeclaration]
    /\ UNCHANGED << frameVars, scratchAux, bindingVars, extraVars, m_PipelineState,
                    m_CurrentProgram, m_CurrentVertexDeclaration >>

NextPipeline ==
    \/ \E program \in Programs : DX12EnableProgram(program)
    \/ \E face_type \in FaceTypes : DX12SetCullFace(face_type)
    \/ \E vertex_declaration \in VertexDeclarations :
          DX12EnableVertexDeclaration(vertex_declaration)
    \/ DrawSetup_Pipeline

SpecPipeline == Init /\ [][NextPipeline]_vars

\* ======================================================================
\* The resource binding table of a program, its uniforms and its draws
\* ======================================================================
\* DX12NewProgram(context, vertex_program, fragment_program); the program is
\* then the current program of the context.
DX12NewProgram(vertex_module, fragment_module) ==
    /\ live
    /\ shaderProgram' = NewProgram(vertex_module, fragment_module)
    /\ builtProgram' = shaderProgram'
    /\ m_UniformData' = [o \in DataOffsets(shaderProgram') |-> "zero"]
    /\ UNCHANGED << frameVars, scratchAux, pipelineVars, extraVars, lastCommit >>

\* DX12SetSampler(context, location, unit) with the location of an entry that
\* has a resource.
DX12SetSampler(location, unit) ==
    /\ live
    /\ shaderProgram # NoShaderProgram
    /\ shaderProgram.m_ResourceBindings[location].m_Res # NullRes
    /\ shaderProgram' = [shaderProgram EXCEPT
                            !.m_ResourceBindings[location].m_TextureUnit = unit]
    /\ UNCHANGED << frameVars, scratchAux, pipelineVars, extraVars, builtProgram,
                    m_UniformData, lastCommit >>

\* DX12SetConstantV4(context, data, count, base_location) with the location
\* of a uniform block.
DX12SetConstantV4(base_location) ==
    /\ live
    /\ shaderProgram # NoShaderProgram
    /\ shaderProgram.m_ResourceBindings[base_location].m_Res.m_BindingFamily
          = "BINDING_FAMILY_UNIFORM_BUFFER"
    /\ m_UniformData' =
          WriteConstantData(
              shaderProgram.m_ResourceBindings[base_location].m_DataOffset,
              m_UniformData, "v4")
    /\ UNCHANGED << frameVars, scratchAux, pipelineVars, extraVars, shaderProgram,
                    builtProgram, lastCommit >>

\* DX12SetConstantM4(context, data, count, base_location) with the location
\* of a uniform block.
DX12SetConstantM4(base_location) ==
    /\ live
    /\ shaderProgram # NoShaderProgram
    /\ shaderProgram.m_ResourceBindings[base_location].m_Res.m_BindingFamily
          = "BINDING_FAMILY_UNIFORM_BUFFER"
    /\ m_UniformData' =
          WriteConstantData(
              shaderProgram.m_ResourceBindings[base_location].m_DataOffset,
              m_UniformData, "m4")
    /\ UNCHANGED << frameVars, scratchAux, pipelineVars, extraVars, shaderProgram,
                    builtProgram, lastCommit >>

\* DrawSetup, CommitUniforms(context, frame_resources): every uniform block
\* and texture of the current program is bound to its root parameter from the
\* scratch buffer of the current frame slot.
DrawSetup_CommitUniforms ==
    /\ live /\ ~aborted
    /\ shaderProgram # NoShaderProgram
    /\ m_MemoryPools[m_CurrentFrameIndex][0].m_DescriptorCursor < MaxAllocs
    /\ LET c == CommitUniforms(shaderProgram, m_MemoryPools[m_CurrentFrameIndex],
                               << >>, 1)
       IN  /\ m_MemoryPools' = [m_MemoryPools EXCEPT ![m_CurrentFrameIndex] = c.pools]
           /\ lastCommit' = [called |-> TRUE, program |-> shaderProgram,
                             bound |-> c.bound]
    /\ UNCHANGED << frameVarsButPools, scratchAux, pipelineVars, extraVars, shaderProgram,
                    builtProgram, m_UniformData >>

NextBindings ==
    \/ \E vertex_module \in VertexModules, fragment_module \in FragmentModules :
          DX12NewProgram(vertex_module, fragment_module)
    \/ \E location \in TableSlots, unit \in TextureUnits :
          DX12SetSampler(location, unit)
    \/ \E base_location \in TableSlots : DX12SetConstantV4(base_location)
    \/ \E base_location \in TableSlots : DX12SetConstantM4(base_location)
    \/ DrawSetup_CommitUniforms

SpecBindings == Init /\ [][NextBindings]_vars

\* ======================================================================
\* Lookup of the uniforms of a program by name and by index
\* ======================================================================
\* DX12GetUniformLocation(prog, name)
DX12GetUniformLocation(name) ==
    /\ live /\ ~aborted
    /\ shaderProgram # NoShaderProgram
    /\ lastLookup' = [called |-> TRUE, name |-> name,
                      location |-> GetUniformLocation(shaderProgram,
                                                      NameHash(name), 1)]
    /\ UNCHANGED << frameVars, scratchAux, pipelineVars, bindingVars, lastName, laterVars >>

\* DX12GetUniformName(prog, index, buffer, buffer_size, type, size)
DX12GetUniformName(index) ==
    /\ live /\ ~aborted
    /\ shaderProgram # NoShaderProgram
    /\ lastName' = [called |-> TRUE, index |-> index,
                    count |-> shaderProgram.m_TotalUniformCount,
                    result |-> GetUniformName(shaderProgram, index, 1, 0)]
    /\ UNCHANGED << frameVars, scratchAux, pipelineVars, bindingVars, lastLookup,
                    laterVars >>

\* DX12SetConstantV4 with the location the latest lookup returned:
\* assert(base_location != INVALID_UNIFORM_LOCATION) ends the process.
DX12SetConstantV4_Looked ==
    /\ live /\ ~aborted
    /\ shaderProgram # NoShaderProgram
    /\ lastLookup.called
    /\ IF lastLookup.location = INVALID_UNIFORM_LOCATION
       THEN /\ aborted' = TRUE
            /\ UNCHANGED m_UniformData
       ELSE LET pgm_res == shaderProgram.m_ResourceBindings[
                               << lastLookup.location.set,
                                  lastLookup.location.binding >>]
            IN  /\ pgm_res.m_Res.m_BindingFamily = "BINDING_FAMILY_UNIFORM_BUFFER"
                /\ m_UniformData' =
                      WriteConstantData(pgm_res.m_DataOffset, m_UniformData, "v4")
                /\ UNCHANGED aborted
    /\ UNCHANGED << frameVars, lastAlloc, pipelineVars, shaderProgram,
                    builtProgram, lastCommit, extraVars >>

NextLookup ==
    \/ \E vertex_module \in VertexModules, fragment_module \in FragmentModules :
          DX12NewProgram(vertex_module, fragment_module)
    \/ \E name \in UniformNames : DX12GetUniformLocation(name)
    \/ \E index \in UniformIndices : DX12GetUniformName(index)
    \/ DX12SetConstantV4_Looked

SpecLookup == Init /\ [][NextLookup]_vars

\* ======================================================================
\* Textures
\* ======================================================================
\* DX12NewTexture(context, params)
DX12NewTexture(mip_map_count) ==
    /\ live /\ ~aborted
    /\ texture' = NewTexture(mip_map_count)
    /\ UNCHANGED << frameVars, scratchAux, pipelineVars, bindingVars, lookupVars,
                    m_VerifyGraphicsCalls, m_TextureSamplers, lastSetTexture,
                    contextVars, historyVars, constantVars, renderPassVars, returnedOffsets >>

\* DX12SetTexture(texture, params); hr is what CreateCommittedResource returns
\* and crash whether the upload through a null resource ends the process.
DX12SetTexture(format, mip_map, minfilter, hr, crash) ==
    /\ live /\ ~aborted
    /\ LET is_rgb == format = "TEXTURE_FORMAT_RGB"
           dxgi_orig == GetDXGIFormatFromTextureFormat(format)
           dxgi_format == IF is_rgb
                          THEN GetDXGIFormatFromTextureFormat("TEXTURE_FORMAT_RGBA")
                          ELSE dxgi_orig
           grown == [texture EXCEPT
                        !.m_MipMapCount = Max(@, mip_map + 1)]
           create == grown.m_Resource = NullHandle
           created == IF create /\ hr = "S_OK"
                      THEN [grown EXCEPT !.m_Resource = TextureResource]
                      ELSE grown
           params == SetTextureParamsInternal(m_TextureSamplers, created, minfilter)
       IN  CASE format \in {"TEXTURE_FORMAT_DEPTH", "TEXTURE_FORMAT_STENCIL"} ->
                  /\ lastSetTexture' = [called |-> TRUE, format |-> format,
                                        logged |-> TRUE]
                  /\ UNCHANGED << texture, m_TextureSamplers, aborted >>
             [] dxgi_orig = NoCase ->
                  /\ aborted' = TRUE
                  /\ lastSetTexture' = [called |-> TRUE, format |-> format,
                                        logged |-> FALSE]
                  /\ UNCHANGED << texture, m_TextureSamplers >>
             [] OTHER ->
                  /\ lastSetTexture' = [called |-> TRUE, format |-> format,
                                        logged |-> FALSE]
                  /\ IF texture.m_MipMapCount = 1 /\ mip_map > 0
                     THEN UNCHANGED << texture, m_TextureSamplers, aborted >>
                     ELSE /\ create => hr \in CreateCommittedResource(dxgi_format)
                          /\ IF create /\ hr # "S_OK" /\ m_VerifyGraphicsCalls
                             THEN /\ aborted' = TRUE
                                  /\ texture' = grown
                                  /\ UNCHANGED m_TextureSamplers
                             ELSE IF created.m_Resource = NullHandle /\ crash
                             THEN /\ aborted' = TRUE
                                  /\ texture' = created
                                  /\ UNCHANGED m_TextureSamplers
                             ELSE /\ Len(params.samplers) <= MaxSamplers
                                  /\ texture' = params.tex
                                  /\ m_TextureSamplers' = params.samplers
                                  /\ UNCHANGED aborted
    /\ UNCHANGED << frameVars, lastAlloc, pipelineVars, bindingVars, lookupVars,
                    m_VerifyGraphicsCalls, contextVars, historyVars, constantVars, renderPassVars, returnedOffsets >>

\* DX12SetTextureParams(texture, minfilter, magfilter, uwrap, vwrap, max_anisotropy)
DX12SetTextureParams(minfilter) ==
    /\ live /\ ~aborted
    /\ LET params == SetTextureParamsInternal(m_TextureSamplers, texture, minfilter)
       IN  /\ Len(params.samplers) <= MaxSamplers
           /\ texture' = params.tex
           /\ m_TextureSamplers' = params.samplers
    /\ UNCHANGED << frameVars, scratchAux, pipelineVars, bindingVars, lookupVars,
                    m_VerifyGraphicsCalls, lastSetTexture, contextVars, historyVars,
                    constantVars, renderPassVars, returnedOffsets >>

NextTexture ==
    \/ \E mip_map_count \in MipMapCounts : DX12NewTexture(mip_map_count)
    \/ \E minfilter \in TextureFilters : DX12SetTextureParams(minfilter)
    \/ \E format \in TextureFormats, mip_map \in MipMaps,
          minfilter \in TextureFilters, hr \in {"S_OK", "E_INVALIDARG"},
          crash \in BOOLEAN :
          DX12SetTexture(format, mip_map, minfilter, hr, crash)

SpecTexture == InitVerify /\ [][NextTexture]_vars

\* ======================================================================
\* Creation and deletion of the device context
\* ======================================================================
\* DX12NewContext(params); initialized is what DX12Initialize returns. A
\* context that is returned starts as DX12Context::DX12Context and
\* DX12Initialize leave it; the buffers, programs and textures of the
\* application are not touched.
DX12NewContext(initialized, verify) ==
    /\ ~aborted
    /\ LET r == NewContext(live, initialized, contextCount)
       IN  /\ live' = r.g_DX12Context
           /\ contextCount' = r.count
           /\ lastNewContext' = [called |-> TRUE, result |-> r.result]
           /\ IF r.result # NullContext
              THEN /\ pc' = "idle"
                   /\ m_CurrentFrameIndex' = 0
                   /\ backBufferIndex' = 0
                   /\ m_FrameBegun' = 0
                   /\ m_FenceValue' = [s \in Slots |-> RENDER_CONTEXT_STATE_FREE]
                   /\ fenceCompleted' = [s \in Slots |-> FENCE_INITIAL_VALUE]
                   /\ m_ResourcesToDestroy' = [s \in Slots |-> << >>]
                   /\ m_MemoryPools' = [s \in Slots |-> ScratchInitialize]
                   /\ cmdList' = [open |-> FALSE, alloc |-> 0, refs |-> {}]
                   /\ gpuQueue' = << >>
                   /\ deviceLost' = FALSE
                   /\ lastSignaled' = [s \in Slots |-> NoFence]
                   /\ scratchWrites' = [k \in ScratchRegions |-> NoFence]
                   /\ m_PipelineState' = [m_CullFaceType |-> "FACE_TYPE_BACK"]
                   /\ m_CurrentProgram' = NoProgram
                   /\ m_CurrentVertexDeclaration' = NoDeclaration
                   /\ m_PipelineCache' = [capacity |-> 0, entries |-> << >>]
                   /\ m_TextureSamplers' = << DefaultSampler >>
                   /\ m_VerifyGraphicsCalls' = verify
              ELSE UNCHANGED << pc, m_CurrentFrameIndex, backBufferIndex,
                                m_FrameBegun, m_FenceValue, fenceCompleted,
                                m_ResourcesToDestroy, m_MemoryPools, cmdList,
                                gpuQueue, deviceLost, lastSignaled, scratchWrites,
                                m_PipelineState, m_CurrentProgram,
                                m_CurrentVertexDeclaration, m_PipelineCache,
                                m_TextureSamplers, m_VerifyGraphicsCalls >>
    /\ UNCHANGED << buffers, nextHandle, releaseCount, drawCount, scratchAux,
                    synthesized, lastPipeline, bindingVars, lookupVars, texture,
                    lastSetTexture, historyVars, constantVars, renderPassVars, returnedOffsets >>

NextContext ==
    \/ \E initialized \in BOOLEAN, verify \in BOOLEAN :
          DX12NewContext(initialized, verify)
    \/ DX12DeleteContext
    \/ \E b \in Buffers : DX12DeleteVertexBuffer(b)
    \/ \E b \in Buffers, hasData \in BOOLEAN : DX12SetVertexBufferData(b, hasData)
    \/ GPUExecute
    \/ \E program \in Programs : DX12EnableProgram(program)
    \/ \E face_type \in FaceTypes : DX12SetCullFace(face_type)

SpecContext == Init /\ [][NextContext]_vars

\* ======================================================================
\* Undo history of a graph (internal.system-test, history-capture)
\* ======================================================================
\* Labels of the transactions of the test, g/operation-label
OperationLabels == {"Build root", "Increment touch count"}

\* has-undo? and has-redo? of a graph
HasUndo(undos) == undos # << >>
HasRedo(redos) == redos # << >>

\* undo-history that takes the oldest entry of the undo stack.
UndoHistory_Oldest(undos, redos) ==
    [undo_stack |-> Tail(undos),
     redo_stack |-> Append(redos, Head(undos))]

\* undo-history: the entry on top of the undo stack goes to the redo stack
UndoHistory(undos, redos) ==
    [undo_stack |-> SubSeq(undos, 1, Len(undos) - 1),
     redo_stack |-> Append(redos, undos[Len(undos)])]

\* ds/transact with g/operation-label on a graph with history
Transact(label) ==
    /\ Len(undo_stack) + Len(redo_stack) < MaxHistory
    /\ undo_stack' = Append(undo_stack, [label |-> label])
    /\ redo_stack' = << >>
    /\ UNCHANGED << frameVars, scratchAux, pipelineVars, bindingVars, lookupVars,
                    textureVars, contextVars, constantVars, renderPassVars, returnedOffsets >>

\* ds/undo, is/undo-history
Undo ==
    /\ HasUndo(undo_stack)
    /\ LET r == UndoHistory(undo_stack, redo_stack)
       IN  /\ undo_stack' = r.undo_stack
           /\ redo_stack' = r.redo_stack
    /\ UNCHANGED << frameVars, scratchAux, pipelineVars, bindingVars, lookupVars,
                    textureVars, contextVars, constantVars, renderPassVars, returnedOffsets >>

NextHistory ==
    \/ \E label \in OperationLabels : Transact(label)
    \/ Undo

SpecHistory == Init /\ [][NextHistory]_vars

\* ======================================================================
\* The named constant buffer and the Constant of the render layer
\* ======================================================================
\* What the call that took the address of a missing element did: the assert of
\* the array ended the process, or the build has no asserts and it went on.
CallResult(result, past_end, asserts) ==
    IF past_end /\ asserts THEN "assert" ELSE result

\* Whether the array's operator[] asserts its index: only a call that took the
\* address of a missing element can tell the builds apart.
AssertBuilds(past_end) == IF past_end THEN BOOLEAN ELSE {FALSE}

NamedCall(call, name_hash, values, value_index, constant_type, result) ==
    [call |-> call, name_hash |-> name_hash, values |-> values,
     value_index |-> value_index, constant_type |-> constant_type,
     result |-> result,
     old_count |-> StoredCount(namedBuffer, name_hash),
     old_total |-> GetNamedConstantCount(namedBuffer)]

NamedEnabled ==
    /\ live
    /\ lastNamedCall.result # "assert"

\* dmRender::SetNamedConstant
DoSetNamedConstant(name_hash, values, type) ==
    /\ NamedEnabled
    /\ LET r == SetNamedConstant(namedBuffer, name_hash, values, type)
       IN  /\ Len(r.buffer.m_Values) <= MaxValues
           /\ \E asserts \in AssertBuilds(r.past_end) :
                 /\ namedBuffer' = IF asserts THEN namedBuffer ELSE r.buffer
                 /\ lastNamedCall' =
                       NamedCall("SetNamedConstant", name_hash, values, 0, type,
                                 CallResult("void", r.past_end, asserts))
    /\ UNCHANGED << frameVars, scratchAux, pipelineVars, bindingVars, lookupVars,
                    textureVars, contextVars, historyVars, returnedOffsets, renderPassVars,
                    constant, lastSetValues >>

\* dmRender::SetNamedConstantAtIndex
DoSetNamedConstantAtIndex(name_hash, values, value_index, type) ==
    /\ NamedEnabled
    /\ LET r == SetNamedConstantAtIndex(namedBuffer, name_hash, values,
                                        value_index, type)
       IN  /\ Len(r.buffer.m_Values) <= MaxValues
           /\ \E asserts \in AssertBuilds(r.past_end) :
                 /\ namedBuffer' = IF asserts THEN namedBuffer ELSE r.buffer
                 /\ lastNamedCall' =
                       NamedCall("SetNamedConstantAtIndex", name_hash, values,
                                 value_index, type,
                                 CallResult(r.result, r.past_end, asserts))
    /\ UNCHANGED << frameVars, scratchAux, pipelineVars, bindingVars, lookupVars,
                    textureVars, contextVars, historyVars, returnedOffsets, renderPassVars,
                    constant, lastSetValues >>

\* dmRender::RemoveNamedConstant
DoRemoveNamedConstant(name_hash) ==
    /\ NamedEnabled
    /\ LET r == RemoveNamedConstant(namedBuffer, name_hash)
       IN  \E asserts \in AssertBuilds(r.past_end) :
               /\ namedBuffer' = IF asserts THEN namedBuffer ELSE r.buffer
               /\ lastNamedCall' =
                     NamedCall("RemoveNamedConstant", name_hash, << >>, 0, "",
                               CallResult("void", r.past_end, asserts))
    /\ UNCHANGED << frameVars, scratchAux, pipelineVars, bindingVars, lookupVars,
                    textureVars, contextVars, historyVars, returnedOffsets, renderPassVars,
                    constant, lastSetValues >>

\* dmRender::ClearNamedConstantBuffer
DoClearNamedConstantBuffer ==
    /\ NamedEnabled
    /\ namedBuffer' = ClearNamedConstantBuffer(namedBuffer)
    /\ lastNamedCall' = NamedCall("ClearNamedConstantBuffer", "", << >>, 0, "", "void")
    /\ UNCHANGED << frameVars, scratchAux, pipelineVars, bindingVars, lookupVars,
                    textureVars, contextVars, historyVars, returnedOffsets, renderPassVars,
                    constant, lastSetValues >>

NextNamed ==
    \/ \E name_hash \in ConstantNames, values \in ValueArrays, type \in ConstantTypes :
          DoSetNamedConstant(name_hash, values, type)
    \/ \E name_hash \in ConstantNames, values \in ValueArrays,
          value_index \in 0 .. MaxIndex, type \in ConstantTypes :
          DoSetNamedConstantAtIndex(name_hash, values, value_index, type)
    \/ \E name_hash \in ConstantNames : DoRemoveNamedConstant(name_hash)
    \/ DoClearNamedConstantBuffer

SpecNamed == Init /\ [][NextNamed]_vars

\* dmRender::SetConstantValues on one Constant
DoSetConstantValues(values, malloc_ok) ==
    /\ live
    /\ LET r == SetConstantValues(constant, values, malloc_ok)
       IN  /\ constant' = r.constant
           /\ lastSetValues' = [called |-> TRUE, values |-> values,
                                malloc_ok |-> malloc_ok, result |-> r.result,
                                copied |-> r.copied, before |-> constant]
    /\ UNCHANGED << frameVars, scratchAux, pipelineVars, bindingVars, lookupVars,
                    textureVars, contextVars, historyVars, returnedOffsets, renderPassVars,
                    namedBuffer, lastNamedCall >>

NextConstant ==
    \E values \in ValueArrays, malloc_ok \in BOOLEAN :
        DoSetConstantValues(values, malloc_ok)

SpecConstant == Init /\ [][NextConstant]_vars

\* ======================================================================
\* The render pass of the main render target over the frames
\* ======================================================================
\* DX12BeginFrame as the render target sees it: the frame index follows the
\* swap chain, the main render target takes the back buffer of the slot, and
\* BeginRenderPass(context, context->m_MainRenderTarget) ends the handler.
DX12BeginFrame_RenderPass ==
    /\ live
    /\ Len(barriers[backBufferIndex]) < MaxBarriers
    /\ m_CurrentFrameIndex' = backBufferIndex
    /\ LET rt == [mainTarget EXCEPT !.m_Resource = BackBuffer(backBufferIndex)]
           r == BeginRenderPass(rt, barriers)
       IN  /\ mainTarget' = r.rt
           /\ barriers' = r.log
           /\ lastPass' = [call |-> "BeginRenderPass", returned |-> TRUE,
                           recorded |-> BarrierCount(r.log, Slots)
                                        - BarrierCount(barriers, Slots),
                           was_bound |-> mainTarget.m_IsBound]
    /\ m_FrameBegun' = 1
    /\ UNCHANGED << live, pc, backBufferIndex, m_FenceValue, fenceCompleted,
                    m_ResourcesToDestroy, m_MemoryPools, buffers, nextHandle,
                    releaseCount, cmdList, gpuQueue, deviceLost, lastSignaled,
                    scratchWrites, drawCount >>
    /\ UNCHANGED << scratchAux, pipelineVars, bindingVars, lookupVars,
                    textureVars, contextVars, historyVars, constantVars,
                    returnedOffsets >>

\* DX12Flip as the render target sees it: EndRenderPass(context) opens the
\* handler, and Present moves the swap chain to the next back buffer.
DX12Flip_RenderPass ==
    /\ live
    /\ LET r == EndRenderPass(mainTarget, barriers)
       IN  /\ mainTarget' = r.rt
           /\ barriers' = r.log
           /\ lastPass' = [call |-> "EndRenderPass", returned |-> r.returned,
                           recorded |-> BarrierCount(r.log, Slots)
                                        - BarrierCount(barriers, Slots),
                           was_bound |-> mainTarget.m_IsBound]
    /\ backBufferIndex' = (backBufferIndex + 1) % MAX_FRAMEBUFFERS
    /\ m_FrameBegun' = 0
    /\ UNCHANGED << live, pc, m_CurrentFrameIndex, m_FenceValue, fenceCompleted,
                    m_ResourcesToDestroy, m_MemoryPools, buffers, nextHandle,
                    releaseCount, cmdList, gpuQueue, deviceLost, lastSignaled,
                    scratchWrites, drawCount >>
    /\ UNCHANGED << scratchAux, pipelineVars, bindingVars, lookupVars,
                    textureVars, contextVars, historyVars, constantVars,
                    returnedOffsets >>

NextRenderPass ==
    \/ DX12BeginFrame_RenderPass
    \/ DX12Flip_RenderPass

SpecRenderPass == Init /\ [][NextRenderPass]_vars

\* ======================================================================
\* Properties
\* ======================================================================
Cursor(s, p) == m_MemoryPools[s][p].m_MemoryCursor
Pending(s) == m_ResourcesToDestroy[s]
\* Occurrences of handle h in the pending lists of all slots.
Occurrences(lists, h) ==
    Cardinality({<< s, i >> \in Slots \X (1 .. (MaxHandles + 1)) :
                    i \in DOMAIN lists[s] /\ lists[s][i] = h})

\* C1: while DX12BeginFrame is past SyncronizeFrame for the selected slot (the
\* command allocator reset, the flush of the destruction list and the scratch
\* buffer reset happen from here on), the slot's fence has reached the value
\* that the most recent Flip of that slot signaled.
C1_ReuseOnlyAfterFence ==
    pc \in {"synced", "flushed"} =>
        fenceCompleted[m_CurrentFrameIndex] >= lastSignaled[m_CurrentFrameIndex]

\* BeginFrame got past the wait on a slot that an earlier Flip signaled with a
\* value above the initial one.
C1_Witness ==
    /\ pc = "synced"
    /\ lastSignaled[m_CurrentFrameIndex] > RENDER_CONTEXT_STATE_FREE
    /\ m_FenceValue[m_CurrentFrameIndex] = lastSignaled[m_CurrentFrameIndex] + 1

\* C2: an allocation that hands out a scratch region which an earlier frame of
\* the slot wrote happens only when the fence has reached the value that
\* earlier frame signals.
C2_NoOverwriteBeforeFence ==
    [][\A s \in Slots, p \in Pools :
          Cursor(s, p)' > Cursor(s, p) =>
              LET r == << s, p, Cursor(s, p) >>
              IN  (r \in ScratchRegions /\ scratchWrites[r] # NoFence) =>
                      fenceCompleted[s] >= scratchWrites[r]]_vars

\* More draws were issued than regions were ever written: some region has been
\* written a second time (by a later frame of its slot).
C2_Witness ==
    /\ drawCount > Cardinality({r \in ScratchRegions : scratchWrites[r] # NoFence})
    /\ \E r \in ScratchRegions : scratchWrites[r] > RENDER_CONTEXT_STATE_FREE + 1

\* C3: while the context exists, no released resource is referenced by a
\* command list that was submitted to the queue and has not been executed by
\* the GPU (the copy of an upload made outside a frame included).
C3_NoReleaseWhileInFlight ==
    live =>
        \A i \in DOMAIN gpuQueue :
            \A h \in gpuQueue[i].refs : releaseCount[h] = 0

\* C4: a step that releases the handles queued in a slot happens only when the
\* slot's fence has reached the value signaled for the slot, whoever calls the
\* flush.
C4_ReleaseOnlyAfterFence ==
    [][\A s \in Slots :
          Len(Pending(s)') < Len(Pending(s)) =>
              fenceCompleted[s] >= lastSignaled[s]]_vars

\* C5: the handles queued in slot a leave its list (and are released) only in
\* the flush that DX12BeginFrame performs for slot a after the fence wait.
C5_OnlyOwnFlushAfterWait ==
    [][\A a \in Slots :
          Len(Pending(a)') < Len(Pending(a)) =>
              /\ pc = "synced"
              /\ m_CurrentFrameIndex = a]_vars

\* FlushResourcesToDestroy on the list of one slot releases the handles of that
\* list only (the frame condition of the flush, whatever the fences say).
FlushIsolation ==
    \A b \in Slots :
        LET r == FlushResourcesToDestroy(Pending(b), releaseCount)
        IN  \A h \in Handles :
                r.counts[h] # releaseCount[h] =>
                    \E i \in DOMAIN Pending(b) : Pending(b)[i] = h

\* C6: a step that retires the live resource of a buffer appends its handle
\* once to the list of the current frame slot, leaves the other lists alone,
\* sets m_Destroyed and takes the handle out of the buffer (cleared, unless the
\* same call creates the next resource); and no handle is ever queued twice.
C6_RetireOnce ==
    [][/\ \A h \in Handles : Occurrences(m_ResourcesToDestroy', h) <= 1
       /\ \A b \in Buffers :
             LET h == buffers[b].m_Resource
             IN  (h # NullHandle /\ buffers'[b] # buffers[b]) =>
                    /\ Pending(m_CurrentFrameIndex)' =
                          Append(Pending(m_CurrentFrameIndex), h)
                    /\ \A s \in Slots \ {m_CurrentFrameIndex} :
                          Pending(s)' = Pending(s)
                    /\ buffers'[b].m_Destroyed = 1
                    /\ buffers'[b].m_Resource # h
                    /\ (nextHandle' = nextHandle =>
                           buffers'[b].m_Resource = NullHandle)
       /\ \A s \in Slots :
             Len(Pending(s)') > Len(Pending(s)) =>
                \E b \in Buffers :
                    /\ buffers[b].m_Resource # NullHandle
                    /\ Pending(s)' = Append(Pending(s), buffers[b].m_Resource)]_vars

\* A retired handle waits in a list while its buffer is marked destroyed and
\* holds no resource.
C6_Witness ==
    \E b \in Buffers, s \in Slots :
        /\ buffers[b].m_Destroyed = 1
        /\ buffers[b].m_Resource = NullHandle
        /\ Len(Pending(s)) > 0

\* C7: a flush empties the list it is applied to and releases each handle of
\* it once; nothing else is released (a flush of an empty list releases
\* nothing), and no handle is released twice.
C7_FlushReleasesOnce ==
    [][/\ \A h \in Handles : releaseCount'[h] <= 1
       /\ \/ /\ releaseCount' = releaseCount
             /\ \A s \in Slots : Len(Pending(s)') >= Len(Pending(s))
          \/ /\ \A s \in Slots :
                   Len(Pending(s)') < Len(Pending(s)) => Pending(s)' = << >>
             /\ \A h \in Handles :
                   releaseCount'[h] = releaseCount[h]
                      + Cardinality({<< s, i >> \in Slots \X (1 .. (MaxHandles + 1)) :
                            /\ i \in DOMAIN Pending(s)
                            /\ Pending(s)[i] = h
                            /\ Pending(s)' = << >>})]_vars

\* A flush has released a handle and left the lists empty.
C7_Witness ==
    /\ \E h \in Handles : releaseCount[h] = 1
    /\ \A s \in Slots : Pending(s) = << >>
    /\ live

\* C8: a Flip that follows its own BeginFrame signals a value above the one the
\* previous Flip of the slot signaled, and it is the slot's m_FenceValue; the
\* next BeginFrame of the slot waits for exactly that value.
C8_FenceValueIncreases ==
    [][/\ (DX12Flip /\ m_FrameBegun = 1) =>
             /\ lastSignaled'[m_CurrentFrameIndex] > lastSignaled[m_CurrentFrameIndex]
             /\ lastSignaled'[m_CurrentFrameIndex] = m_FenceValue'[m_CurrentFrameIndex]
       /\ (SyncronizeFrame /\ m_FrameBegun = 0
              /\ lastSignaled[backBufferIndex] # NoFence) =>
             m_FenceValue[backBufferIndex] = lastSignaled[backBufferIndex]]_vars

\* The second Flip of a slot has signaled.
C8_Witness ==
    /\ m_FrameBegun = 0
    /\ lastSignaled[m_CurrentFrameIndex] = RENDER_CONTEXT_STATE_FREE + 2

\* C9: when the device is lost while DX12BeginFrame waits for the fence, the
\* wait can still end.
C9_WaitEndsOnDeviceLoss ==
    (pc = "wait" /\ deviceLost) => ENABLED WaitForSingleObject

\* C10: DX12BeginFrame flushes the list of the selected slot after the fence
\* wait and before the scratch buffer reset; when it returns the list of the
\* slot is empty, every pool cursor of the slot is zero and m_FrameBegun is 1;
\* Flip sets m_FrameBegun back to 0.
C10_BeginFrameOrder ==
    [][/\ (pc # "synced" /\ pc' = "synced") =>
             /\ fenceCompleted[m_CurrentFrameIndex']
                   >= m_FenceValue'[m_CurrentFrameIndex'] - 1
             /\ m_ResourcesToDestroy' = m_ResourcesToDestroy
             /\ m_MemoryPools' = m_MemoryPools
       /\ (pc # "flushed" /\ pc' = "flushed") =>
             /\ pc = "synced"
             /\ Pending(m_CurrentFrameIndex)' = << >>
             /\ m_MemoryPools' = m_MemoryPools
       /\ (pc = "flushed" /\ pc' = "idle") =>
             /\ Pending(m_CurrentFrameIndex)' = << >>
             /\ \A p \in Pools :
                   /\ m_MemoryPools'[m_CurrentFrameIndex][p].m_MemoryCursor = 0
                   /\ m_MemoryPools'[m_CurrentFrameIndex][p].m_DescriptorCursor = 0
             /\ m_FrameBegun' = 1
       /\ m_FrameBegun' # m_FrameBegun =>
             IF m_FrameBegun' = 1 THEN pc = "flushed" ELSE DX12Flip]_vars

\* BeginFrame has returned on a slot whose list held a handle (now released)
\* and whose scratch buffer an earlier frame had written.
C10_Witness ==
    /\ pc = "idle" /\ m_FrameBegun = 1
    /\ \E h \in Handles : releaseCount[h] = 1
    /\ \E r \in ScratchRegions :
          r[1] = m_CurrentFrameIndex /\ scratchWrites[r] # NoFence
    /\ \A p \in Pools : Cursor(m_CurrentFrameIndex, p) = 0

\* C11: Reset zeroes the memory and the descriptor cursor of every pool
\* whatever they were, a second Reset changes nothing, and the first
\* allocation of a size after a Reset selects the pool and the offset (0) that
\* the first allocation of that size on a freshly initialised scratch buffer
\* gets.
C11_ResetIdempotent ==
    LET pools == m_MemoryPools[m_CurrentFrameIndex]
        zeroed(q) == \A p \in Pools : /\ q[p].m_MemoryCursor = 0
                                       /\ q[p].m_DescriptorCursor = 0
    IN  /\ zeroed(ScratchReset(pools))
        /\ ScratchReset(ScratchReset(pools)) = ScratchReset(pools)
        /\ lastAlloc.call = "reset" =>
               /\ zeroed(pools)
               /\ pools = ScratchReset(lastAlloc.before)
        /\ \A size \in AllocSizes :
               AssertSize(size) =>
                  LET a == AllocateConstantBuffer(ScratchReset(pools), size)
                      f == AllocateConstantBuffer(ScratchInitialize, size)
                  IN  /\ a.pool_index = f.pool_index
                      /\ a.cpu_offset = f.cpu_offset
                      /\ a.cpu_offset = 0
        /\ (lastAlloc.call = "constant" /\ zeroed(lastAlloc.before)) =>
               /\ lastAlloc.cpu_offset = 0
               /\ lastAlloc.pool_index =
                     AllocateConstantBuffer(ScratchInitialize, lastAlloc.size).pool_index

\* Reset has just run on a scratch buffer whose pools all had advanced cursors.
C11_Witness ==
    /\ lastAlloc.call = "reset"
    /\ \A p \in Pools : /\ lastAlloc.before[p].m_MemoryCursor > 0
                         /\ lastAlloc.before[p].m_DescriptorCursor > 0
    /\ \A p \in Pools : Cursor(m_CurrentFrameIndex, p) = 0

\* C12: an allocation of a size below MAX_BLOCK_SIZE selects the pool with the
\* smallest block size that is at least the size, multiples of BLOCK_STEP_SIZE
\* included.
C12_SmallestFittingPool ==
    lastAlloc.call = "constant" =>
        /\ BlockSize(lastAlloc.pool_index) >= lastAlloc.size
        /\ \A i \in Pools :
              BlockSize(i) >= lastAlloc.size =>
                  BlockSize(lastAlloc.pool_index) <= BlockSize(i)

\* C13: the constant buffer view an allocation binds addresses the pool and
\* the offset of the CPU pointer it returns.
C13_ViewMatchesPointer ==
    lastAlloc.call = "constant" =>
        /\ lastAlloc.gpu_pool = lastAlloc.pool_index
        /\ lastAlloc.gpu_offset = lastAlloc.cpu_offset

\* C14: a call with size MAX_BLOCK_SIZE - 1 passes the assert and selects an
\* existing pool; a call with a size of MAX_BLOCK_SIZE or more never allocates:
\* the assert fails with every cursor as it was and no view bound.
C14_SizePrecondition ==
    /\ (lastAlloc.call # "none" /\ lastAlloc.size = MAX_BLOCK_SIZE - 1) =>
           /\ lastAlloc.call = "constant"
           /\ lastAlloc.pool_index \in Pools
           /\ lastAlloc.pool_index < MAX_BLOCK_SIZE \div BLOCK_STEP_SIZE
    /\ lastAlloc.call = "constant" => lastAlloc.size < MAX_BLOCK_SIZE
    /\ lastAlloc.call = "assert" =>
           /\ lastAlloc.size >= MAX_BLOCK_SIZE
           /\ aborted
           /\ m_MemoryPools[m_CurrentFrameIndex] = lastAlloc.before
           /\ ~lastAlloc.bound
    /\ aborted => lastAlloc.call = "assert"

\* The assert has failed for size MAX_BLOCK_SIZE on a scratch buffer whose
\* last pool had served an allocation before.
C14_Witness ==
    /\ aborted
    /\ lastAlloc.call = "assert"
    /\ lastAlloc.size = MAX_BLOCK_SIZE
    /\ lastAlloc.before[(MAX_BLOCK_SIZE \div BLOCK_STEP_SIZE) - 1].m_MemoryCursor > 0


\* C15: a GetOrCreatePipeline call whose program (root signature), render
\* target id and pipeline state were used by an earlier call returns the
\* pipeline that call cached and does not call CreatePipeline again, whatever
\* the capacity of the cache has become in between; CreatePipeline is called
\* once for the first call with these inputs.
C15_SameInputsSamePipeline ==
    [][DrawSetup_Pipeline =>
        LET h == PipelineHash(m_PipelineState, MainRenderTarget,
                              RootSignatureOf(m_CurrentProgram),
                              m_CurrentVertexDeclaration)
        IN  IF Made(synthesized, h) > 0
            THEN /\ h \in DOMAIN m_PipelineCache.entries
                 /\ lastPipeline'.pipeline = m_PipelineCache.entries[h]
                 /\ lastPipeline'.pipeline.generation = 1
                 /\ ~lastPipeline'.created
                 /\ synthesized' = synthesized
            ELSE /\ lastPipeline'.created
                 /\ Made(synthesized', h) = 1]_vars

\* The pipeline created first, when the cache had its first capacity, is
\* returned from the cache after the cache has grown.
C15_Witness ==
    /\ lastPipeline.called
    /\ ~lastPipeline.created
    /\ m_PipelineCache.capacity > PIPELINE_CACHE_GROWTH
    /\ \A h \in DOMAIN m_PipelineCache.entries : Made(synthesized, h) = 1
    /\ lastPipeline.pipeline.hash =
           PipelineHash([m_CullFaceType |-> "FACE_TYPE_BACK"], MainRenderTarget,
                        RootSignatureOf("sprite"), NoDeclaration)

\* C16: the cache holds one pipeline per hash, made by one CreatePipeline
\* call; no step changes or removes an entry, the number of entries and the
\* capacity never decrease and the entries never outnumber the capacity.
C16_EntriesOnlyAdded ==
    [][/\ \A h \in DOMAIN m_PipelineCache.entries :
             /\ h \in DOMAIN m_PipelineCache'.entries
             /\ m_PipelineCache'.entries[h] = m_PipelineCache.entries[h]
       /\ \A h \in PipelineHashes :
             /\ Made(synthesized', h) <= 1
             /\ (Made(synthesized', h) = 1) <=> (h \in DOMAIN m_PipelineCache'.entries)
       /\ Cardinality(DOMAIN m_PipelineCache'.entries)
             >= Cardinality(DOMAIN m_PipelineCache.entries)
       /\ m_PipelineCache'.capacity >= m_PipelineCache.capacity
       /\ Cardinality(DOMAIN m_PipelineCache'.entries) <= m_PipelineCache'.capacity]_vars

\* The cache has grown and holds more entries than its first capacity.
C16_Witness ==
    /\ Cardinality(DOMAIN m_PipelineCache.entries) > PIPELINE_CACHE_GROWTH
    /\ m_PipelineCache.capacity = PIPELINE_CACHE_GROWTH + PIPELINE_CACHE_GROWTH
    /\ lastPipeline.created

\* C17: the pipeline a draw gets was built from what CreatePipeline would
\* read at that draw: the program, the render target and the input layout of
\* the enabled vertex declaration.
C17_HashCoversInputs ==
    lastPipeline.called =>
        /\ lastPipeline.pipeline.program = lastPipeline.program
        /\ lastPipeline.pipeline.rt = lastPipeline.rt
        /\ lastPipeline.pipeline.input_layout = lastPipeline.input_layout


\* The stages whose module lists a resource at the slot.
StagesListing(program, slot) ==
    {"SHADER_STAGE_FLAG_VERTEX" :
        i \in {j \in DOMAIN (program.m_VertexModule.m_UniformBuffers
                              \o program.m_VertexModule.m_Textures) :
                 LET r == (program.m_VertexModule.m_UniformBuffers
                           \o program.m_VertexModule.m_Textures)[j]
                 IN  << r.m_Set, r.m_Binding >> = slot}}
    \cup
    {"SHADER_STAGE_FLAG_FRAGMENT" :
        i \in {j \in DOMAIN (program.m_FragmentModule.m_UniformBuffers
                              \o program.m_FragmentModule.m_Textures) :
                 LET r == (program.m_FragmentModule.m_UniformBuffers
                           \o program.m_FragmentModule.m_Textures)[j]
                 IN  << r.m_Set, r.m_Binding >> = slot}}

\* C18: in the table DX12NewProgram built, every entry carries the flag of
\* every stage that lists a resource at its (set, binding): an entry listed
\* by the vertex and the fragment stage has both flags.
C18_LaterStagesAddFlag ==
    builtProgram # NoShaderProgram => \A slot \in TableSlots :
        builtProgram.m_ResourceBindings[slot].m_StageFlags
            = StagesListing(builtProgram, slot)

\* C19: the resource binding table of the program stays as DX12NewProgram
\* built it.
C19_TableFixedAfterNewProgram ==
    shaderProgram.m_ResourceBindings = builtProgram.m_ResourceBindings

\* C20: a draw with a program of one uniform block at set 0, binding 0 and one
\* texture at set 0, binding 1 binds the uniform view to root parameter 0, the
\* texture to root parameter 1 and its sampler to root parameter 2.
C20_RootIndices ==
    (/\ lastCommit.called
     /\ \A slot \in TableSlots :
           lastCommit.program.m_ResourceBindings[slot].m_Res.m_BindingFamily =
               CASE slot = << 0, 0 >> -> "BINDING_FAMILY_UNIFORM_BUFFER"
                 [] slot = << 0, 1 >> -> "BINDING_FAMILY_TEXTURE"
                 [] OTHER -> "BINDING_FAMILY_GENERIC")
    => /\ Len(lastCommit.bound) = 3
       /\ lastCommit.bound[1].root_index = 0
       /\ lastCommit.bound[1].view = "constant_buffer"
       /\ lastCommit.bound[2].root_index = 1
       /\ lastCommit.bound[2].view = "texture"
       /\ lastCommit.bound[3].root_index = 2
       /\ lastCommit.bound[3].view = "sampler"


\* C21: a DX12DeleteVertexBuffer call on a buffer that is already destroyed
\* (destroyed flag set, handle cleared, no upload since) does not return
\* normally: it ends in a failed assertion.
C21_DoubleDestroyAsserts ==
    \A b \in Buffers :
        (/\ live /\ pc = "idle"
         /\ buffers[b].m_Destroyed = 1
         /\ buffers[b].m_Resource = NullHandle)
        => ~ENABLED (DX12DeleteVertexBuffer(b) /\ ~aborted')


\* The names of the resources in the table of the program and of the
\* members of its uniform blocks.
NamesOf(program) ==
    UNION {{program.m_ResourceBindings[slot].m_Res.m_Name}
           \cup {MembersOf(program.m_ResourceBindings[slot].m_Res)[i] :
                    i \in DOMAIN MembersOf(program.m_ResourceBindings[slot].m_Res)} :
           slot \in {x \in TableSlots :
                       program.m_ResourceBindings[x].m_Res # NullRes}}

\* C22 as stated: a lookup of a name that matches no resource and no member
\* of a uniform block of the program ends in a failed assertion.
C22_UnknownNameAsserts ==
    [][\A name \in UniformNames :
          (DX12GetUniformLocation(name) /\ name \notin NamesOf(shaderProgram))
          => aborted']_vars

\* C22 as the code has it: a lookup of a name that matches no resource and no
\* member of a uniform block of the program returns INVALID_UNIFORM_LOCATION
\* to the caller and no assertion fails; a lookup of any other name returns a
\* location in the table; DX12SetConstantV4 with INVALID_UNIFORM_LOCATION
\* fails its assertion.
C22_UnknownNameInvalid ==
    [][/\ \A name \in UniformNames :
             DX12GetUniformLocation(name) =>
                 /\ ~aborted'
                 /\ (name \notin NamesOf(shaderProgram))
                       <=> (lastLookup'.location = INVALID_UNIFORM_LOCATION)
                 /\ (name \in NamesOf(shaderProgram)) =>
                       << lastLookup'.location.set, lastLookup'.location.binding >>
                           \in TableSlots
       /\ (DX12SetConstantV4_Looked
            /\ lastLookup.location = INVALID_UNIFORM_LOCATION) => aborted'
       /\ (DX12SetConstantV4_Looked
            /\ lastLookup.location # INVALID_UNIFORM_LOCATION) => ~aborted']_vars

\* An unknown name was looked up, INVALID_UNIFORM_LOCATION came back and the
\* assertion of DX12SetConstantV4 failed on it.
C22_Witness ==
    /\ lastLookup.called
    /\ lastLookup.name = "no_such_uniform"
    /\ lastLookup.location = INVALID_UNIFORM_LOCATION
    /\ aborted

\* C23: DX12SetTexture with a format the backend cannot upload (DEPTH, STENCIL
\* and every format with no DXGI format) logs an error and returns: no
\* assertion fails and the texture's resource, mip count and sampler index stay
\* as they were.
CannotUpload(format) ==
    \/ format \in {"TEXTURE_FORMAT_DEPTH", "TEXTURE_FORMAT_STENCIL"}
    \/ /\ format # "TEXTURE_FORMAT_RGB"
       /\ GetDXGIFormatFromTextureFormat(format) \in {"DXGI_FORMAT_UNKNOWN", NoCase}

C23_UnsupportedFormatLogged ==
    [][\A format \in TextureFormats, mip_map \in MipMaps,
          minfilter \in TextureFilters, hr \in {"S_OK", "E_INVALIDARG"},
          crash \in BOOLEAN :
           (DX12SetTexture(format, mip_map, minfilter, hr, crash)
            /\ CannotUpload(format))
           => /\ lastSetTexture'.logged
              /\ ~aborted'
              /\ texture' = texture]_vars

\* A resource CreateDeviceBuffer made that no buffer holds any more.
Retired(h) ==
    /\ h < nextHandle
    /\ \A b \in Buffers : buffers[b].m_Resource # h

\* C24: after DX12DeleteContext no frame slot has a pending resource left, and
\* every resource that was ever retired has been released exactly once.
C24_DeleteContextDrains ==
    ~live =>
        /\ \A s \in Slots : Pending(s) = << >>
        /\ \A h \in Handles : Retired(h) => releaseCount[h] = 1

\* DX12DeleteContext released a resource no DX12BeginFrame could have flushed:
\* no frame was ever begun.
C24_Witness ==
    /\ ~live
    /\ \E h \in Handles : Retired(h) /\ releaseCount[h] = 1
    /\ m_FrameBegun = 0
    /\ \A s \in Slots : lastSignaled[s] = NoFence

\* The state a context owns.
contextState ==
    << pc, m_CurrentFrameIndex, backBufferIndex, m_FrameBegun, m_FenceValue,
       fenceCompleted, m_ResourcesToDestroy, m_MemoryPools, cmdList, gpuQueue,
       deviceLost, m_PipelineState, m_CurrentProgram, m_CurrentVertexDeclaration,
       m_PipelineCache, m_TextureSamplers, m_VerifyGraphicsCalls >>

\* C25: at most one device context is live. DX12NewContext while a context is
\* live returns null and leaves that context as it is; DX12NewContext whose
\* initialization fails returns null and leaves no context; and when no
\* context is live (at the start or after DX12DeleteContext) a DX12NewContext
\* can succeed.
C25_OneLiveContext ==
    /\ [](contextCount = IF live THEN 1 ELSE 0)
    /\ []((~live /\ ~aborted) =>
             ENABLED (DX12NewContext(TRUE, FALSE)
                      /\ live' /\ lastNewContext'.result # NullContext))
    /\ [][\A initialized \in BOOLEAN, verify \in BOOLEAN :
             DX12NewContext(initialized, verify) =>
                /\ live =>
                      /\ lastNewContext'.result = NullContext
                      /\ live' /\ contextCount' = contextCount
                      /\ contextState' = contextState
                /\ (~live /\ ~initialized) =>
                      /\ lastNewContext'.result = NullContext
                      /\ ~live' /\ contextCount' = 0
                /\ (~live /\ initialized) =>
                      /\ lastNewContext'.result # NullContext
                      /\ live' /\ contextCount' = 1]_vars

\* A context was deleted after work on it and DX12NewContext succeeded again.
C25_Witness ==
    /\ live /\ contextCount = 1
    /\ lastNewContext.called /\ lastNewContext.result # NullContext
    /\ \E h \in Handles : releaseCount[h] = 1

\* C26: a retire (DX12DeleteVertexBuffer / DX12DeleteIndexBuffer,
\* DX12SetVertexBufferData / DX12SetIndexBufferData) and the transient
\* allocations of a draw leave the frame index alone and change the pending
\* list and the pool cursors of no frame slot but the current one.
C26_OnlyCurrentSlot ==
    [][LET untouched ==
               /\ m_CurrentFrameIndex' = m_CurrentFrameIndex
               /\ \A s \in Slots \ {m_CurrentFrameIndex} :
                     /\ m_ResourcesToDestroy'[s] = m_ResourcesToDestroy[s]
                     /\ m_MemoryPools'[s] = m_MemoryPools[s]
           retire_or_draw ==
               \/ \E b \in Buffers : DX12DeleteVertexBuffer(b)
               \/ \E b \in Buffers, hasData \in BOOLEAN :
                     DX12SetVertexBufferData(b, hasData)
               \/ \E b \in Buffers, size \in DrawSizes : DX12Draw(b, size)
       IN  untouched \/ ~retire_or_draw]_vars

\* In a frame on the second slot a draw has allocated and a buffer was retired.
C26_Witness ==
    /\ m_CurrentFrameIndex = 1 /\ m_FrameBegun = 1
    /\ Pending(1) # << >> /\ Pending(0) = << >>
    /\ \E p \in Pools : Cursor(1, p) > 0

LabelsOf(stack) == [i \in 1 .. Len(stack) |-> stack[i].label]

C28_OffsetsStepByBlock ==
    /\ [](\A i \in Pools :
            LET offsets == returnedOffsets[i]
            IN  /\ \A k \in 1 .. Len(offsets) : offsets[k] = (k - 1) * BlockSize(i)
                /\ \A j, k \in 1 .. Len(offsets) :
                      j < k => offsets[j] + BlockSize(i) <= offsets[k]
                /\ Cursor(m_CurrentFrameIndex, i) = Len(offsets) * BlockSize(i))
    /\ [][ScratchResetCall
          \/ \A i \in Pools :
                Cursor(m_CurrentFrameIndex, i)' >= Cursor(m_CurrentFrameIndex, i)]_vars

\* Two allocations from the second pool since the last Reset.
C28_Witness ==
    /\ returnedOffsets[1] = << 0, BlockSize(1) >>
    /\ lastAlloc.call = "constant"

\* The resources of a program in the order CreateProgramResourceBindings
\* visits them, and the visits that claim an entry of the table: the first
\* visit of each (set, binding).
VisitOrder(program) ==
    program.m_VertexModule.m_UniformBuffers \o program.m_VertexModule.m_StorageBuffers
        \o program.m_VertexModule.m_Textures
        \o program.m_FragmentModule.m_UniformBuffers
        \o program.m_FragmentModule.m_StorageBuffers
        \o program.m_FragmentModule.m_Textures

Claims(program, family) ==
    LET visits == VisitOrder(program)
    IN  {i \in 1 .. Len(visits) :
            /\ visits[i].m_BindingFamily = family
            /\ \A j \in 1 .. (i - 1) :
                  << visits[j].m_Set, visits[j].m_Binding >>
                      # << visits[i].m_Set, visits[i].m_Binding >>}

RECURSIVE BlockSizes(_, _)
BlockSizes(visits, indices) ==
    IF indices = {} THEN 0
    ELSE LET i == CHOOSE x \in indices : TRUE
         IN  visits[i].m_BlockSize + BlockSizes(visits, indices \ {i})

\* C29: CreateProgramResourceBindings gives every uniform buffer it claims the
\* sum of the block sizes claimed before it as data offset, so the regions are
\* disjoint and the backing store is as large as their sum; the claimed
\* textures get the units 0 .. TextureCount - 1 in claim order, each once; and
\* MaxSet and MaxBinding are one more than the largest claimed set and binding.
C29_OffsetsAndUnits ==
    builtProgram # NoShaderProgram =>
        LET visits == VisitOrder(builtProgram)
            buffers_claimed == Claims(builtProgram, "BINDING_FAMILY_UNIFORM_BUFFER")
            textures_claimed == Claims(builtProgram, "BINDING_FAMILY_TEXTURE")
            entry(i) == builtProgram.m_ResourceBindings[
                            << visits[i].m_Set, visits[i].m_Binding >>]
            claimed == buffers_claimed \cup textures_claimed
        IN  /\ \A i \in buffers_claimed :
                  entry(i).m_DataOffset =
                      BlockSizes(visits, {j \in buffers_claimed : j < i})
            /\ \A i, j \in buffers_claimed :
                  i < j => entry(i).m_DataOffset + visits[i].m_BlockSize
                               <= entry(j).m_DataOffset
            /\ builtProgram.m_UniformDataSize = BlockSizes(visits, buffers_claimed)
            /\ \A i \in textures_claimed :
                  entry(i).m_TextureUnit =
                      Cardinality({j \in textures_claimed : j < i})
            /\ {entry(i).m_TextureUnit : i \in textures_claimed}
                  = 0 .. (builtProgram.m_TextureSamplerCount - 1)
            /\ \A i, j \in textures_claimed :
                  entry(i).m_TextureUnit = entry(j).m_TextureUnit => i = j
            /\ claimed # {} =>
                  /\ \E i \in claimed : builtProgram.m_MaxSet = visits[i].m_Set + 1
                  /\ \A i \in claimed : builtProgram.m_MaxSet >= visits[i].m_Set + 1
                  /\ \E i \in claimed :
                        builtProgram.m_MaxBinding = visits[i].m_Binding + 1
                  /\ \A i \in claimed :
                        builtProgram.m_MaxBinding >= visits[i].m_Binding + 1

\* A program with two uniform blocks and a texture.
C29_Witness ==
    /\ builtProgram # NoShaderProgram
    /\ builtProgram.m_UniformBufferCount = 2
    /\ builtProgram.m_TextureSamplerCount = 1
    /\ builtProgram.m_ResourceBindings[<< 0, 2 >>].m_DataOffset = 64

\* (set, binding, member) of one uniform comes before that of another in the
\* order of the loops of GetUniformName.
Before(a, b) ==
    \/ a.set < b.set
    \/ a.set = b.set /\ a.binding < b.binding
    \/ a.set = b.set /\ a.binding = b.binding /\ a.member < b.member

\* C30: DX12GetUniformName finds a uniform (a texture, a storage buffer or a
\* member of a uniform block) for every index below DX12GetUniformCount and
\* none, returning 0, for every index from the count on; different indices
\* find different uniforms, in (set, binding, member) order.
C30_IndexEnumeratesUniforms ==
    /\ lastName.called =>
          /\ lastName.index < lastName.count <=> lastName.result.found
          /\ lastName.index >= lastName.count => lastName.result = NotFound
    /\ shaderProgram # NoShaderProgram =>
          \A i, j \in UniformIndices :
              (i < j /\ j < shaderProgram.m_TotalUniformCount) =>
                  LET a == GetUniformName(shaderProgram, i, 1, 0)
                      b == GetUniformName(shaderProgram, j, 1, 0)
                  IN  /\ a.found /\ b.found
                      /\ Before(a, b)
                      /\ shaderProgram.m_ResourceBindings[
                             << b.set, b.binding >>].m_Res # NullRes

\* The last index below the count of a program with four uniforms was asked for.
C30_Witness ==
    /\ lastName.called
    /\ lastName.count = 4
    /\ lastName.index = 3
    /\ lastName.result.found
    /\ shaderProgram.m_TotalUniformCount = 4

\* C31: every root parameter a draw binds for a uniform buffer or a texture of
\* the program is the root parameter DX12NewProgram declared for that resource
\* in the root signature of the program.
C31_BoundIsDeclared ==
    lastCommit.called =>
        LET declared == RootParameterDescs(
                            NewProgram(lastCommit.program.m_VertexModule,
                                       lastCommit.program.m_FragmentModule),
                            << >>, 0, 1)
        IN  \A i \in 1 .. Len(lastCommit.bound) :
                \E j \in 1 .. Len(declared) : declared[j] = lastCommit.bound[i]

\* C32: when DX12BeginFrame resets the command allocator of the current frame
\* slot, no command list recorded through that allocator is still in the
\* queue of the GPU, whether a frame or an upload outside a frame recorded it.
C32_AllocatorResetAfterCompletion ==
    (live /\ pc = "synced") =>
        \A i \in 1 .. Len(gpuQueue) :
            gpuQueue[i].kind = "exec" => gpuQueue[i].alloc # m_CurrentFrameIndex

\* ----------------------------------------------------------------------
\* C33: for any number of draws in one frame, every region returned by
\* AllocateConstantBuffer lies inside the mapped memory of its pool (memory
\* cursor + block size <= pool memory size), and every descriptor slot
\* written by AllocateTexture2D has an index below DESCRIPTORS_PER_POOL.
C33_AllocationsInsidePool ==
    /\ lastAlloc.call = "constant" =>
          lastAlloc.cpu_offset + BlockSize(lastAlloc.pool_index) <= memory_heap_size
    /\ lastAlloc.call = "texture" =>
          lastAlloc.before[0].m_DescriptorCursor < DESCRIPTORS_PER_POOL


\* ----------------------------------------------------------------------
\* C34: SetNamedConstantAtIndex, SetNamedConstant and RemoveNamedConstant
\* applied to one name leave what GetNamedConstant returns for every other
\* name (value sequence, count and type) unchanged, also when
\* SetNamedConstantAtIndex grows a constant that is not the last one stored.
C34_OtherNamesUnchanged ==
    [][(/\ lastNamedCall'.call \in {"SetNamedConstantAtIndex", "SetNamedConstant",
                                   "RemoveNamedConstant"}
        /\ lastNamedCall'.result # "assert")
       => \A m \in ConstantNames \ {lastNamedCall'.name_hash} :
              GetNamedConstant(namedBuffer', m) = GetNamedConstant(namedBuffer, m)]_vars

\* ----------------------------------------------------------------------
\* The values [m_ValueIndex, m_ValueIndex + m_NumValues) of a stored constant.
RangeOf(buffer, n) ==
    {i \in 0 .. (Len(buffer.m_Values) + MaxValues) :
        /\ i >= buffer.m_Constants[n].m_ValueIndex
        /\ i < buffer.m_Constants[n].m_ValueIndex + buffer.m_Constants[n].m_NumValues}

RECURSIVE SumOfCounts(_, _)
SumOfCounts(buffer, names) ==
    IF names = {} THEN 0
    ELSE LET n == CHOOSE x \in names : TRUE
         IN  buffer.m_Constants[n].m_NumValues + SumOfCounts(buffer, names \ {n})

\* C35: after any sequence of SetNamedConstant, SetNamedConstantAtIndex,
\* RemoveNamedConstant and ClearNamedConstantBuffer calls (constants holding
\* zero values included), the ranges [m_ValueIndex, m_ValueIndex +
\* m_NumValues) of distinct constants are pairwise disjoint, lie inside
\* [0, m_Values.Size()), and their lengths sum to m_Values.Size().
C35_RangesPartitionValues ==
    LET names == DOMAIN namedBuffer.m_Constants
    IN  /\ \A n \in names, m \in names :
               n # m => RangeOf(namedBuffer, n) \cap RangeOf(namedBuffer, m) = {}
        /\ \A n \in names :
               /\ namedBuffer.m_Constants[n].m_ValueIndex >= 0
               /\ namedBuffer.m_Constants[n].m_ValueIndex
                      + namedBuffer.m_Constants[n].m_NumValues
                  <= Len(namedBuffer.m_Values)
        /\ SumOfCounts(namedBuffer, names) = Len(namedBuffer.m_Values)


\* ----------------------------------------------------------------------
\* C36: after SetNamedConstant(buffer, name, values, n, type), GetNamedConstant
\* for the name returns true with exactly the n given values and the given
\* type; after RemoveNamedConstant it returns false, and GetNamedConstantCount
\* has dropped by one if the name was stored and is unchanged otherwise.
C36_SetThenGet ==
    LET g == GetNamedConstant(namedBuffer, lastNamedCall.name_hash)
    IN  /\ (lastNamedCall.call = "SetNamedConstant" /\ lastNamedCall.result # "assert")
              => /\ g.found
                 /\ g.num_values = Len(lastNamedCall.values)
                 /\ g.values = lastNamedCall.values
                 /\ g.constant_type = lastNamedCall.constant_type
        /\ (lastNamedCall.call = "RemoveNamedConstant" /\ lastNamedCall.result # "assert")
              => /\ ~g.found
                 /\ GetNamedConstantCount(namedBuffer) =
                       IF lastNamedCall.old_count # NotStored
                       THEN lastNamedCall.old_total - 1
                       ELSE lastNamedCall.old_total

\* ----------------------------------------------------------------------
\* C37: SetNamedConstantAtIndex on a stored constant that holds at least one
\* value of another type returns RESULT_TYPE_MISMATCH and leaves the whole
\* buffer unchanged; in every other case it returns RESULT_OK, the count of
\* the constant becomes max(old count, value_index + num_values), and the
\* written elements equal the given values.
C37_SetAtIndex ==
    [][lastNamedCall'.call = "SetNamedConstantAtIndex" =>
          LET call == lastNamedCall'
              name == call.name_hash
              old_count == IF HasConstant(namedBuffer, name)
                           THEN namedBuffer.m_Constants[name].m_NumValues
                           ELSE 0
              value_size == call.value_index + Len(call.values)
              g == GetNamedConstant(namedBuffer', name)
          IN  IF /\ HasConstant(namedBuffer, name)
                 /\ old_count >= 1
                 /\ namedBuffer.m_Constants[name].m_Type # call.constant_type
              THEN /\ call.result = "RESULT_TYPE_MISMATCH"
                   /\ namedBuffer' = namedBuffer
              ELSE /\ call.result = "RESULT_OK"
                   /\ g.found
                   /\ g.num_values = IF old_count > value_size
                                     THEN old_count ELSE value_size
                   /\ \A k \in 1 .. Len(call.values) :
                          g.values[call.value_index + k] = call.values[k]]_vars

\* ----------------------------------------------------------------------
\* C40: over any sequence of SetConstantValues calls on one Constant with
\* varying counts, a successful call leaves GetConstantValues returning
\* exactly the given count and values and copies no more values than the
\* allocated storage holds; a call whose allocation fails returns
\* RESULT_OUT_OF_RESOURCES and leaves the stored values and count unchanged.
C40_SetConstantValues ==
    lastSetValues.called =>
        IF Len(lastSetValues.values) > lastSetValues.before.m_NumValues
           /\ ~lastSetValues.malloc_ok
        THEN /\ lastSetValues.result = "RESULT_OUT_OF_RESOURCES"
             /\ constant = lastSetValues.before
        ELSE /\ lastSetValues.result = "RESULT_OK"
             /\ GetConstantValues(constant) =
                   [num_values |-> Len(lastSetValues.values),
                    values     |-> lastSetValues.values]
             /\ lastSetValues.copied <= Len(constant.m_Values)

\* A successful call that asks for more values than the count but no more
\* than the storage an earlier call allocated.
C40_Witness ==
    /\ lastSetValues.called
    /\ lastSetValues.result = "RESULT_OK"
    /\ Len(lastSetValues.values) > lastSetValues.before.m_NumValues
    /\ Len(lastSetValues.values) <= Len(lastSetValues.before.m_Values)
    /\ lastSetValues.before.m_NumValues > 0


\* ----------------------------------------------------------------------
\* C39: over the frames, the main render target is bound (m_IsBound = 1)
\* exactly between BeginFrame and Flip; the transitions recorded for a back
\* buffer strictly alternate PRESENT -> RENDER_TARGET and RENDER_TARGET ->
\* PRESENT; BeginRenderPass on the target that is already bound records
\* nothing; EndRenderPass on an unbound target returns false and records no
\* barrier.
C39_RenderPassAlternates ==
    /\ (mainTarget.m_IsBound = 1) <=> (m_FrameBegun = 1)
    /\ \A b \in Slots : \A i \in 1 .. Len(barriers[b]) :
           barriers[b][i] =
               IF i % 2 = 1
               THEN [before |-> "D3D12_RESOURCE_STATE_PRESENT",
                     after  |-> "D3D12_RESOURCE_STATE_RENDER_TARGET"]
               ELSE [before |-> "D3D12_RESOURCE_STATE_RENDER_TARGET",
                     after  |-> "D3D12_RESOURCE_STATE_PRESENT"]
    /\ (lastPass.call = "BeginRenderPass" /\ lastPass.was_bound = 1)
          => lastPass.recorded = 0
    /\ (lastPass.call = "EndRenderPass" /\ lastPass.was_bound = 0)
          => (~lastPass.returned /\ lastPass.recorded = 0)

\* Every back buffer went through two whole passes, and the latest call was a
\* Flip on an unbound target.
C39_Witness ==
    /\ \A b \in Slots : Len(barriers[b]) >= 4
    /\ lastPass.call = "EndRenderPass"
    /\ lastPass.was_bound = 0


\* ----------------------------------------------------------------------
\* The filter GetTextureSamplerIndex looks for when it is given this one.
ResolvedFilter(filter) ==
    IF filter = "TEXTURE_FILTER_DEFAULT" THEN m_DefaultTextureMinFilter ELSE filter

\* C38: after any sequence of SetTextureParams and SetTexture calls the
\* sampler table holds no two samplers with the same parameters after the
\* default filter is resolved (so a repeated request, TEXTURE_FILTER_DEFAULT
\* included, never adds a sampler), and the sampler index of every texture
\* refers to an existing sampler.
C38_SamplersUnique ==
    /\ \A i \in 1 .. Len(m_TextureSamplers), j \in 1 .. Len(m_TextureSamplers) :
           i < j =>
               \/ ResolvedFilter(m_TextureSamplers[i].m_MinFilter)
                      # ResolvedFilter(m_TextureSamplers[j].m_MinFilter)
               \/ m_TextureSamplers[i].m_MaxLod # m_TextureSamplers[j].m_MaxLod
    /\ texture.m_TextureSamplerIndex < Len(m_TextureSamplers)


====
